---------------------------- MODULE Spec2Model ----------------------------
(***************************************************************************)
(* Ball state estimation pipeline of LinkAI.                               *)
(*                                                                         *)
(*   KalmanTracker       src/kalman_tracker.py                             *)
(*   HybridBallDetector  src/hybrid_detector.py                            *)
(*   TrajectorySimulator src/trajectory_physics.py                         *)
(*   LaunchVectorCalculator  src/launch_vector.py                          *)
(*   lookup tables       src/generate_archetype_tables.py                  *)
(*   the frame endpoint  src/api_server.py                                 *)
(*                                                                         *)
(* Python floats are modelled in fixed point: a real number v is the       *)
(* integer v * Scale, products and quotients are rescaled (Mul, Div).      *)
(* The flight simulation and the launch vector keep five decimals: there   *)
(* v is the integer v * TScale (TMul, TDiv).                               *)
(* An optional value (Python None or a value) is a sequence of length 0    *)
(* or 1; a tuple or matrix that may be None is <<>> when it is None.       *)
(***************************************************************************)
EXTENDS Integers, Sequences, FiniteSets, TLC

VARIABLES
    \* ---- KalmanTracker fields
    process_noise,      \* constructor argument q
    measurement_noise,  \* constructor argument r
    dt,                 \* self.dt
    x,                  \* self.x : None or 4x1 state vector [x, y, vx, vy]
    P,                  \* self.P : None or 4x4 covariance
    is_initialized,     \* self.is_initialized
    miss_count,         \* self.miss_count
    \* ---- KalmanTracker call record (what the last call was and returned)
    k_op,               \* "new" | "update" | "predict" | "reset"
    k_arg,              \* argument of the last update: None or Some(measurement)
    k_ret,              \* return value of the last update: None or Some(state dict)
    k_raised,           \* the last call raised instead of returning
    k_x0,               \* self.x when the last call started
    k_P0,               \* self.P when the last call started
    k_was_init,         \* is_initialized when the last call started
    k_miss0,            \* miss_count when the last call started
    k_discards,         \* tracks discarded so far for consecutive misses
    k_nones,            \* consecutive update(None) calls since the last real
                        \* measurement, construction or reset
    k_calls,            \* number of calls made so far
    \* ---- HybridBallDetector fields
    yolo_available,     \* self.yolo_available
    roi,                \* self.roi : None or (x, y, w, h)
    consecutive_misses, \* self.consecutive_misses
    frame_count,        \* self.frame_count
    \* ---- HybridBallDetector call record
    h_op,               \* "new" | "detect_ball" | "reset"
    h_frame,            \* (width, height) of the frame of the last detect_ball
    h_roi0,             \* self.roi when the last call started
    h_yolo_ran,         \* the last detect_ball called _detect_with_yolo
    h_bbox,             \* what _detect_with_yolo returned then (None if not called)
    h_search,           \* the roi the last detect_ball handed to _detect_with_hough
    h_hough,            \* what _detect_with_hough returned: (center, radius)
    h_raised,           \* the last detect_ball raised instead of returning
    h_ret,              \* what the last detect_ball returned: (center, radius)
    h_missrun,          \* consecutive frames in which the local search found
                        \* nothing, since the last hit, construction or reset
    h_index,            \* frames since construction or the last reset()
    h_calls,            \* number of calls made so far
    \* ---- TrajectorySimulator field
    air_density,        \* self.air_density
    \* ---- simulate_flight: the call in progress
    t_pc,               \* "idle" | "loop" (at the while test) | "done" (returned)
    t_shot,             \* the arguments of the call
    wind_vector,        \* (wind_x, wind_y)
    state,              \* [x, y, z, vx, vy, vz, spin_rate, spin_axis]
    time,               \* simulated time
    apex_height,        \* greatest height recorded
    trajectory_points,  \* the points recorded
    t_result,           \* None, or Some(the dict returned)
    t_mirror,           \* what the previous call returned, kept while the call
                        \* in progress is its mirror image (the same shot with
                        \* side_spin_axis_deg negated); None otherwise
    \* ---- LaunchVectorCalculator call record
    l_op,               \* "new" | "calculate_launch_vector"
    l_points,           \* the trajectory points of the last call
    l_gyro,             \* its gyro_data: None or Some(degrees)
    l_speed_result,     \* the speed result of the last call, None if not computed
    l_angle_result,     \* the angle result of the last call, None if not computed
    l_direction_result, \* the direction result of the last call, None if not
                        \* computed
    l_confidence,       \* what _calculate_confidence returned, None if not called
    l_result,           \* the dict calculate_launch_vector returned
    l_methods,          \* for every result returned so far that has a method
                        \* field: (method, the launch angle is the default)
    \* ---- generate_all_lookup_tables: the loops over archetypes and speeds
    g_pc,               \* "idle" (between two variants) | "loop" (in the while
                        \* loop of calculate_trajectory) | "break" (left it by
                        \* break) | "end" (all tables generated)
    g_archetype,        \* index in ARCHETYPES of the archetype at hand
    g_speed,            \* index in SpeedPercents of the speed at hand
    g_state,            \* x, y, z, vx, vy, vz, t of calculate_trajectory
    g_trajectory,       \* the points recorded by calculate_trajectory
    g_entry,            \* None, or Some(the table entry generated last)
    \* ---- simulate_flight calls that overlap on one TrajectorySimulator: the
    \* locals of each call (the instance's air_density is shared)
    run_pc,             \* per call: "idle" | "loop" | "done"
    run_call,           \* per call: None, or Some(its arguments)
    run_wind,           \* per call: wind_vector
    run_state,          \* per call: state
    run_time,           \* per call: time
    run_apex,           \* per call: apex_height
    run_points,         \* per call: trajectory_points
    run_k,              \* per call: k1 .. of the _rk4_step in progress, so far
    run_drag,           \* per call: None, or Some(the density _forces read for the drag)
    run_density,        \* per call: the values of self.air_density it has read
    run_result,         \* per call: None, or Some(the dict returned)
    \* ---- api_server: the requests in progress (the module's detector and
    \* tracker are the detector and the tracker above, shared by all requests)
    s_plan,             \* the rounds of requests yet to send
    s_req,              \* per client: None, or Some(its request in progress)
    s_pc,               \* per client: "idle", or the call its handler is in
                        \* or has just left: "detect" | "update" | "recheck"
    s_call,             \* per client: the statement of that call its thread
                        \* is at, and the call's locals
    s_i,                \* per client: index of the frame its handler is at
    s_found,            \* per client: (center, radius) that its last
                        \* detect_ball returned, None before
    s_points,           \* per client: len(trajectory_points) / len(positions)
    s_fed,              \* per client: <<>>, or <<the measurement its handler
                        \* gave tracker.update last>>
    s_answer,           \* per client: None, or Some(its last answer)
    s_start,            \* per client: the tracking state its request started with
    s_expected,         \* per client: the tracking state its previous request
                        \* left when that request started (the fresh one if
                        \* the client had none)
    s_left              \* per client: the tracking state its last finished
                        \* request left

kalman_vars == <<process_noise, measurement_noise, dt, x, P, is_initialized,
                 miss_count, k_op, k_arg, k_ret, k_raised, k_x0, k_P0,
                 k_was_init, k_miss0, k_discards, k_nones, k_calls>>

hybrid_vars == <<yolo_available, roi, consecutive_misses, frame_count, h_op,
                 h_frame, h_roi0, h_yolo_ran, h_bbox, h_search, h_hough,
                 h_raised, h_ret, h_missrun, h_index, h_calls>>

trajectory_vars == <<air_density, t_pc, t_shot, wind_vector, state, time,
                     apex_height, trajectory_points, t_result, t_mirror>>

launch_vars == <<l_op, l_points, l_gyro, l_speed_result, l_angle_result,
                 l_direction_result, l_confidence, l_result, l_methods>>

tables_vars == <<g_pc, g_archetype, g_speed, g_state, g_trajectory, g_entry>>

overlap_vars == <<run_pc, run_call, run_wind, run_state, run_time, run_apex,
                  run_points, run_k, run_drag, run_density, run_result>>

server_vars == <<s_plan, s_req, s_pc, s_call, s_i, s_found, s_points, s_fed, s_answer,
                 s_start, s_expected, s_left>>

vars == <<kalman_vars, hybrid_vars, trajectory_vars, launch_vars, tables_vars,
          overlap_vars, server_vars>>

-----------------------------------------------------------------------------
(* Bounds of the model *)

\* calls made to one tracker in a run
MaxCalls == 8

\* calls made to one tracker of any configuration in a run
MaxConfigCalls == 4

\* calls made to one detector in a run
MaxFrames == 10

-----------------------------------------------------------------------------
(* Values *)

Scale == 1000

None == <<>>
Some(v) == <<v>>

\* a * b of two fixed-point numbers: floor(a * b / Scale), computed in parts
\* to stay within 32-bit integers
Mul(a, b) ==
    (a \div Scale) * b + (a % Scale) * (b \div Scale)
        + ((a % Scale) * (b % Scale)) \div Scale

\* floor(a * 10^n / b) for b > 0, digit by digit
RECURSIVE LongDiv(_, _, _)
LongDiv(a, b, n) ==
    IF n = 0 THEN a \div b
    ELSE (a \div b) * 10^n + LongDiv((a % b) * 10, b, n - 1)

\* The entries of an inverse are small numbers: they are kept with twice the
\* digits, as v * Scale * Scale.
\* floor(a * 10^6 / b) for b > 0; a divisor of more than eight digits is cut
\* to eight, so that the long division stays within 32 bits
LongDivFine(a, b) ==
    IF b < 100000000 THEN LongDiv(a, b, 6) ELSE LongDiv(a \div 100, b \div 100, 6)
\* a / b, fine
DivFine(a, b) == IF b > 0 THEN LongDivFine(a, b) ELSE LongDivFine(-a, -b)
\* a * f of a fixed-point number and a fine one, as a fixed-point number
MulFine(a, f) ==
    (a \div Scale) * (f \div Scale) + ((a % Scale) * (f \div Scale)) \div Scale
        + ((a \div Scale) * (f % Scale) + ((a % Scale) * (f % Scale)) \div Scale)
              \div Scale

\* int -> float
Float(n) == n * Scale

-----------------------------------------------------------------------------
(* Matrices: a matrix is a sequence of rows *)

\* the sequence <<f[1], ..., f[n]>> of a function f (the dimensions here are
\* 1, 2 and 4), with its entries evaluated
Vec(n, f) ==
    IF n = 1 THEN <<f[1]>>
    ELSE IF n = 2 THEN <<f[1], f[2]>>
    ELSE <<f[1], f[2], f[3], f[4]>>

\* the n x m matrix of the entries f[i][j]
Mat(n, m, f) == Vec(n, [i \in 1..n |-> Vec(m, f[i])])

\* row i of A times column j of B
Dot(A, B, i, j) ==
    LET n == Len(B)
        T(k) == Mul(A[i][k], B[k][j])
    IN  IF n = 1 THEN T(1)
        ELSE IF n = 2 THEN T(1) + T(2)
        ELSE T(1) + T(2) + T(3) + T(4)

MatMul(A, B) ==
    Mat(Len(A), Len(B[1]),
        [i \in 1..Len(A) |-> [j \in 1..Len(B[1]) |-> Dot(A, B, i, j)]])

\* A @ B for a fine matrix B
DotFine(A, B, i, j) ==
    LET n == Len(B)
        T(k) == MulFine(A[i][k], B[k][j])
    IN  IF n = 1 THEN T(1)
        ELSE IF n = 2 THEN T(1) + T(2)
        ELSE T(1) + T(2) + T(3) + T(4)

MatMulFine(A, B) ==
    Mat(Len(A), Len(B[1]),
        [i \in 1..Len(A) |-> [j \in 1..Len(B[1]) |-> DotFine(A, B, i, j)]])

MatT(A) ==
    Mat(Len(A[1]), Len(A), [j \in 1..Len(A[1]) |-> [i \in 1..Len(A) |-> A[i][j]]])

MatAdd(A, B) ==
    Mat(Len(A), Len(A[1]),
        [i \in 1..Len(A) |-> [j \in 1..Len(A[1]) |-> A[i][j] + B[i][j]]])

MatSub(A, B) ==
    Mat(Len(A), Len(A[1]),
        [i \in 1..Len(A) |-> [j \in 1..Len(A[1]) |-> A[i][j] - B[i][j]]])

\* np.eye(n) * s
Eye(n, s) == Mat(n, n, [i \in 1..n |-> [j \in 1..n |-> IF i = j THEN s ELSE 0]])

\* determinant of a 2x2 matrix
Det2(S) == Mul(S[1][1], S[2][2]) - Mul(S[1][2], S[2][1])

\* np.linalg.inv of a 2x2 matrix with Det2(S) # 0, as a fine matrix
Inv2(S) ==
    LET d == Det2(S)
    IN  << << DivFine(S[2][2], d), DivFine(-S[1][2], d) >>,
           << DivFine(-S[2][1], d), DivFine(S[1][1], d) >> >>

-----------------------------------------------------------------------------
(* KalmanTracker *)

\* KalmanTracker.max_misses
kalman_max_misses == 6

\* defaults of __init__(process_noise=1.0, measurement_noise=10.0, dt=0.15)
DefaultProcessNoise == 1000
DefaultMeasurementNoise == 10000
DefaultDt == 150

\* self.F
F == << <<Scale, 0, dt, 0>>,
        <<0, Scale, 0, dt>>,
        <<0, 0, Scale, 0>>,
        <<0, 0, 0, Scale>> >>

\* self.H
H == << <<Scale, 0, 0, 0>>,
        <<0, Scale, 0, 0>> >>

\* self.Q
Q ==
    LET q   == process_noise
        dt2 == Mul(dt, dt)
        dt3 == Mul(dt2, dt)
        dt4 == Mul(dt3, dt)
        a   == Mul(q, dt4) \div 4
        b   == Mul(q, dt3) \div 2
        c   == Mul(q, dt2)
    IN  << <<a, 0, b, 0>>,
           <<0, a, 0, b>>,
           <<b, 0, c, 0>>,
           <<0, b, 0, c>> >>

\* self.R
R == << <<measurement_noise, 0>>,
        <<0, measurement_noise>> >>

\* the configurations a tracker is constructed with: (process_noise,
\* measurement_noise, dt): the defaults; a negative measurement noise that
\* cancels the position variance predicted for the second measurement of a
\* track (q = 0, r = -106.25, dt = 0.25); a zero time step; a negative
\* process noise
Configs ==
    { <<DefaultProcessNoise, DefaultMeasurementNoise, DefaultDt>>,
      <<0, -106250, 250>>,
      <<DefaultProcessNoise, DefaultMeasurementNoise, 0>>,
      <<-Scale, DefaultMeasurementNoise, DefaultDt>> }

\* the measurements a detector hands to update: (x, y, radius) in pixels
Measurements == { <<10, 20, 5>>, <<14, 17, 6>> }

\* the dict update returns
StateDict(sx, sy, svx, svy, sr, pred) ==
    [x |-> sx, y |-> sy, vx |-> svx, vy |-> svy, r |-> sr, predicted |-> pred]

\* the state and covariance after predict() on an initialized tracker
PredictX(xv) == MatMul(F, xv)
PredictP(Pm) == MatAdd(MatMul(MatMul(F, Pm), MatT(F)), Q)

\* the state after KalmanTracker(process_noise=q, measurement_noise=r, dt=d)
KalmanNew(q, r, d) ==
    /\ process_noise = q
    /\ measurement_noise = r
    /\ dt = d
    /\ x = None
    /\ P = None
    /\ is_initialized = FALSE
    /\ miss_count = 0
    /\ k_op = "new"
    /\ k_arg = None
    /\ k_ret = None
    /\ k_raised = FALSE
    /\ k_x0 = None
    /\ k_P0 = None
    /\ k_was_init = FALSE
    /\ k_miss0 = 0
    /\ k_discards = 0
    /\ k_nones = 0
    /\ k_calls = 0

\* the state after KalmanTracker()
KalmanInit == KalmanNew(DefaultProcessNoise, DefaultMeasurementNoise, DefaultDt)

KalmanCall(op, arg) ==
    /\ k_calls < MaxCalls
    /\ k_calls' = k_calls + 1
    /\ k_op' = op
    /\ k_arg' = arg
    /\ k_was_init' = is_initialized
    /\ k_miss0' = miss_count
    /\ k_x0' = x
    /\ k_P0' = P
    /\ UNCHANGED <<process_noise, measurement_noise, dt>>
    /\ UNCHANGED <<hybrid_vars, trajectory_vars, launch_vars, tables_vars, overlap_vars>>

\* (a threshold one miss too low)
TrackLostEarly(count) == count >= kalman_max_misses - 1

\* (a threshold one miss too high)
TrackLostLate(count) == count > kalman_max_misses

\* the miss threshold test of update(None)
TrackLost(count) == count >= kalman_max_misses

\* update(None)
UpdateNone ==
    /\ KalmanCall("update", None)
    /\ k_raised' = FALSE
    /\ k_nones' = k_nones + 1
    /\ miss_count' = miss_count + 1
    /\ IF TrackLost(miss_count + 1)
       THEN /\ is_initialized' = FALSE
            /\ x' = None
            /\ P' = None
            /\ k_ret' = None
            /\ k_discards' = k_discards + (IF is_initialized THEN 1 ELSE 0)
       ELSE /\ is_initialized' = is_initialized
            /\ UNCHANGED k_discards
            /\ IF is_initialized
               THEN /\ x' = PredictX(x)
                    /\ P' = PredictP(P)
               ELSE UNCHANGED <<x, P>>
            /\ k_ret' = IF x' # None
                        THEN Some(StateDict(x'[1][1], x'[2][1], x'[3][1], x'[4][1],
                                            0, TRUE))
                        ELSE None

\* the first measurement of a track
InitX(m) == << <<Float(m[1])>>, <<Float(m[2])>>, <<0>>, <<0>> >>
InitP == Eye(4, Float(100))
\* (an initialization that keeps the old miss counter)
InitMissCountKept(count) == count

InitMissCount(count) == 0

\* (a correction that keeps the miss counter)
CorrectMissCountKept(count) == count

\* the miss counter after a predict-then-correct update
CorrectMissCount(count) == 0

\* np.linalg.inv(S) raises LinAlgError("Singular matrix")
Singular(S) == Det2(S) = 0

\* update((x_meas, y_meas, radius))
UpdateMeasurement(m) ==
    /\ KalmanCall("update", Some(m))
    /\ k_nones' = 0
    /\ UNCHANGED k_discards
    /\ IF ~is_initialized
       THEN /\ k_raised' = FALSE
            /\ x' = InitX(m)
            /\ P' = InitP
            /\ is_initialized' = TRUE
            /\ miss_count' = InitMissCount(miss_count)
            /\ k_ret' = Some(StateDict(Float(m[1]), Float(m[2]), 0, 0,
                                       Float(m[3]), FALSE))
       ELSE \* (\E v \in {e} names the value of e)
            \E z \in {<< <<Float(m[1])>>, <<Float(m[2])>> >>} :
            \E xp \in {PredictX(x)}, Pp \in {PredictP(P)} :
            \E y_innov \in {MatSub(z, MatMul(H, xp))} :
            \E S \in {MatAdd(MatMul(MatMul(H, Pp), MatT(H)), R)} :
            IF Singular(S)
            THEN \* np.linalg.inv raises LinAlgError, after self.predict()
                 /\ k_raised' = TRUE
                 /\ x' = xp
                 /\ P' = Pp
                 /\ UNCHANGED <<is_initialized, miss_count, k_ret>>
            ELSE
            \E K \in {MatMulFine(MatMul(Pp, MatT(H)), Inv2(S))} :
            \E xn \in {MatAdd(xp, MatMul(K, y_innov))} :
            \E Pn \in {MatMul(MatSub(Eye(4, Scale), MatMul(K, H)), Pp)} :
                /\ k_raised' = FALSE
                /\ x' = xn
                /\ P' = Pn
                /\ is_initialized' = is_initialized
                /\ miss_count' = CorrectMissCount(miss_count)
                /\ k_ret' = Some(StateDict(xn[1][1], xn[2][1], xn[3][1], xn[4][1],
                                           Float(m[3]), FALSE))

\* predict(), called directly
Predict ==
    /\ KalmanCall("predict", None)
    /\ k_raised' = FALSE
    /\ IF ~is_initialized
       THEN UNCHANGED <<x, P>>
       ELSE /\ x' = PredictX(x)
            /\ P' = PredictP(P)
    /\ UNCHANGED <<is_initialized, miss_count, k_ret, k_nones, k_discards>>

\* reset()
KalmanReset ==
    /\ KalmanCall("reset", None)
    /\ k_raised' = FALSE
    /\ x' = None
    /\ P' = None
    /\ is_initialized' = FALSE
    /\ miss_count' = 0
    /\ k_nones' = 0
    /\ UNCHANGED <<k_ret, k_discards>>

\* the calls of a tracker that no request handler of api_server makes
KalmanNext ==
    \/ UpdateNone /\ UNCHANGED server_vars
    \/ (\E m \in Measurements : UpdateMeasurement(m)) /\ UNCHANGED server_vars
    \/ Predict /\ UNCHANGED server_vars
    \/ KalmanReset /\ UNCHANGED server_vars

-----------------------------------------------------------------------------
(* KalmanTracker: the claims *)

\* the last call was update(None) / update(measurement)
UpdatedNone == k_op = "update" /\ k_arg = None
UpdatedMeasurement == k_op = "update" /\ k_arg # None

\* this step is a call of update
UpdateStep == k_calls' = k_calls + 1 /\ k_op' = "update"

\* C1 (as claimed): on an initialized tracker, the k-th consecutive
\* update(None) after a real detection returns a predict-only state with
\* predicted = true for every k <= max_misses (6); only the 7th returns None
\* and leaves the tracker uninitialized.
C1_DiscardOnlyAboveMaxMisses ==
    (UpdatedNone /\ k_was_init) =>
        IF k_nones <= kalman_max_misses
        THEN is_initialized /\ k_ret # None /\ k_ret[1].predicted
        ELSE ~is_initialized /\ k_ret = None

\* C2: for 1 <= N < max_misses, N consecutive update(None) on an initialized
\* tracker and then a real measurement never discard the track: the tracker
\* stays initialized, each of the N calls returns a state with predicted =
\* true, and the resuming call returns the predict-then-correct state (the
\* covariance is corrected, not set anew, and the velocity returned is the
\* velocity of the track) with predicted = false and miss_count = 0.
C2_MissThenRecover ==
    [][ /\ ( /\ UpdateStep /\ k_arg' = None
             /\ is_initialized /\ k_nones' < kalman_max_misses )
           => ( /\ is_initialized'
                /\ k_ret' # None
                /\ k_ret'[1].predicted
                /\ k_ret'[1].vx = x[3][1] /\ k_ret'[1].vy = x[4][1] )
        /\ ( /\ UpdateStep /\ k_arg' # None
             /\ is_initialized /\ k_nones \in 1..(kalman_max_misses - 1) )
           => ( /\ is_initialized'
                /\ k_ret' # None
                /\ ~k_ret'[1].predicted
                /\ miss_count' = 0
                /\ P' # InitP
                /\ P'[1][1] < InitP[1][1]
                /\ k_ret'[1].vx = x'[3][1] /\ k_ret'[1].vy = x'[4][1] )
      ]_vars

\* C2 witness: a measurement resumed a track after max_misses - 1 = 5 missed
\* frames, and the track still moves.
C2_Witness ==
    /\ UpdatedMeasurement /\ k_was_init
    /\ k_miss0 = kalman_max_misses - 1
    /\ is_initialized
    /\ k_ret[1].vx # 0

\* C3: whenever the tracker is uninitialized (new, reset or discarded), the
\* next real measurement (x, y, r) initializes it afresh: update returns
\* exactly x, y, r with zero velocity and predicted = false, miss_count is 0,
\* and the state is that of a new track (position at the measurement, zero
\* velocity, covariance 100 I).
C3_FreshInitialization ==
    (UpdatedMeasurement /\ ~k_was_init) =>
        LET m == k_arg[1]
        IN  /\ is_initialized
            /\ k_ret = Some([x |-> Float(m[1]), y |-> Float(m[2]), vx |-> 0,
                             vy |-> 0, r |-> Float(m[3]), predicted |-> FALSE])
            /\ miss_count = 0
            /\ x = << <<Float(m[1])>>, <<Float(m[2])>>, <<0>>, <<0>> >>
            /\ P = Eye(4, Float(100))

\* C3 witness: a measurement initialized a second track after the first was
\* discarded for consecutive misses.
C3_Witness ==
    /\ UpdatedMeasurement /\ ~k_was_init
    /\ k_discards >= 1
    /\ k_miss0 >= kalman_max_misses
    /\ is_initialized

\* C4: miss_count is the number of consecutive update(None) calls since the
\* last real measurement, construction or reset (0 right after a real
\* measurement), and an uninitialized (never initialized, reset or discarded)
\* tracker answers update(None) with None and stays uninitialized.
C4_MissCountIsNoneRun ==
    /\ miss_count = k_nones
    /\ UpdatedMeasurement => miss_count = 0
    /\ (UpdatedNone /\ ~k_was_init) => (k_ret = None /\ ~is_initialized)

\* C4 witness: update(None) on a tracker already discarded for misses: the
\* counter keeps counting, above max_misses.
C4_Witness ==
    /\ UpdatedNone /\ ~k_was_init
    /\ k_discards >= 1
    /\ miss_count > kalman_max_misses
    /\ k_ret = None

\* C30: in every state of a tracker reached by update, predict and reset
\* calls, is_initialized is true exactly when x and P are set (not None), and
\* an initialized tracker has miss_count < max_misses.
C30_InitializedIffStateSet ==
    /\ is_initialized <=> (x # None /\ P # None)
    /\ is_initialized <=> (x # None \/ P # None)
    /\ is_initialized => miss_count < kalman_max_misses

\* C30 witness: the fifth consecutive miss of an initialized tracker, one
\* below the threshold: the tracker is still initialized, with x and P set.
C30_Witness ==
    /\ UpdatedNone /\ k_was_init
    /\ is_initialized /\ x # None /\ P # None
    /\ miss_count = kalman_max_misses - 1

\* the configuration of the tracker is one that makes sense: no negative
\* noise variance, a time step that is not 0
ValidConfig == process_noise >= 0 /\ measurement_noise >= 0 /\ dt # 0

\* C22 (as claimed): a tracker constructed with a negative process_noise or
\* measurement_noise, or with dt = 0, is rejected at construction: no tracker
\* with such a configuration reaches update().
C22_InvalidConfigRejected ==
    k_op = "update" => ValidConfig

\* C23 (as claimed): when the innovation covariance S is singular, update
\* either counts the frame as no update or fails with an error, and in both
\* cases x, P and miss_count are not left half-updated: no predict step is
\* applied without its correction.
C23_SingularGuarded ==
    (UpdatedMeasurement /\ k_raised) =>
        /\ x = k_x0
        /\ P = k_P0
        /\ miss_count = k_miss0

-----------------------------------------------------------------------------
(* HybridBallDetector *)

\* HybridBallDetector.max_misses
detector_max_misses == 3

\* self.yolo_frequency
yolo_frequency == 5

\* input_size of _detect_with_yolo
input_size == 640

\* margin of the ROI around a wide-detector box
margin == 20

\* half side and side of the ROI around a local detection
roi_half == 50
roi_side == 100

Max(a, b) == IF a >= b THEN a ELSE b

\* Python int() of the quotient n / d, d > 0: truncation toward zero
IntDiv(n, d) == IF n >= 0 THEN n \div d ELSE -((-n) \div d)

\* (width, height) of the frames handed to detect_ball
Frames == { <<200, 200>>, <<120, 90>> }

\* The detection _detect_with_yolo selects from the network output (the one of
\* greatest sports-ball confidence above the threshold), as (cx, cy, w, h) in
\* the 640 x 640 network input; the second lies outside the input image.
Detections == { <<320, 320, 64, 64>>, <<800, 100, 40, 40>> }

\* The circle cv2.HoughCircles reports first, as (circle_x, circle_y, r) in
\* the searched image.
Circles == { <<10, 10, 5>>, <<70, 60, 8>>, <<150, 95, 6>> }

\* _detect_with_yolo: the selected detection scaled back to the frame
DetectWithYolo(best, frame) ==
    IF best = None THEN None
    ELSE LET cx == best[1][1]
             cy == best[1][2]
             w  == best[1][3]
             h  == best[1][4]
             original_w == frame[1]
             original_h == frame[2]
         IN  << IntDiv((2 * cx - w) * original_w, 2 * input_size),
                IntDiv((2 * cy - h) * original_h, 2 * input_size),
                IntDiv(w * original_w, input_size),
                IntDiv(h * original_h, input_size) >>

\* _detect_with_hough, the crop: the region searched, as (x, y, w, h), or None
\* when the clipped ROI is empty
SearchRegion(frame, r) ==
    IF r = None THEN <<0, 0, frame[1], frame[2]>>
    ELSE LET rx == Max(0, r[1])
             ry == Max(0, r[2])
             w  == IF rx + r[3] > frame[1] THEN frame[1] - rx ELSE r[3]
             h  == IF ry + r[4] > frame[2] THEN frame[2] - ry ELSE r[4]
         IN  IF w <= 0 \/ h <= 0 THEN None ELSE <<rx, ry, w, h>>

\* _detect_with_hough, the result: (center, radius) for the circle found in
\* the region, (None, 0) for no circle
HoughResult(region, circle) ==
    IF circle = None THEN <<None, 0>>
    ELSE << <<circle[1][1] + region[1], circle[1][2] + region[2]>>, circle[1][3] >>

\* the circles that can be found in a region
CirclesIn(region) ==
    { c \in Circles : c[1] < region[3] /\ c[2] < region[4] }

\* (a wide scan on the periodic frames only)
ShouldRunYoloPeriodic(avail, r, misses, count) ==
    avail /\ count % yolo_frequency = 0

\* (a wide scan that does not ask whether the model was loaded)
ShouldRunYoloUnguarded(avail, r, misses, count) ==
    \/ r = None
    \/ misses > detector_max_misses
    \/ count % yolo_frequency = 0

\* should_run_yolo
ShouldRunYolo(avail, r, misses, count) ==
    avail /\ (\/ r = None
              \/ misses > detector_max_misses
              \/ count % yolo_frequency = 0)

\* the ROI around a wide-detector box
RoiFromBBox(bbox) ==
    << Max(0, bbox[1] - margin), Max(0, bbox[2] - margin),
       bbox[3] + 2 * margin, bbox[4] + 2 * margin >>

\* (an ROI whose origin is not clamped to the frame)
RoiFromCenterUnclamped(center) ==
    << center[1] - roi_half, center[2] - roi_half, roi_side, roi_side >>

\* the ROI around a local detection
RoiFromCenter(center) ==
    << Max(0, center[1] - roi_half), Max(0, center[2] - roi_half),
       roi_side, roi_side >>

\* the test that clears the ROI after a miss
BallLost(misses) == misses > detector_max_misses

\* what detect_ball returns: the local detector's (center, radius), or
\* (None, 0) when it found nothing; bbox is what the wide detector returned
DetectResult(found, bbox) ==
    IF found[1] # None THEN found ELSE <<None, 0>>

\* the state after __init__, with the YOLO model loaded or not
HybridNew(avail) ==
    /\ yolo_available = avail
    /\ roi = None
    /\ consecutive_misses = 0
    /\ frame_count = 0
    /\ h_op = "new"
    /\ h_frame = None
    /\ h_roi0 = None
    /\ h_yolo_ran = FALSE
    /\ h_bbox = None
    /\ h_search = None
    /\ h_hough = <<None, 0>>
    /\ h_raised = FALSE
    /\ h_ret = None
    /\ h_missrun = 0
    /\ h_index = 0
    /\ h_calls = 0

HybridInit == \E avail \in BOOLEAN : HybridNew(avail)

HybridCall(op) ==
    /\ h_calls < MaxFrames
    /\ h_calls' = h_calls + 1
    /\ h_op' = op
    /\ h_roi0' = roi
    /\ UNCHANGED yolo_available
    /\ UNCHANGED <<kalman_vars, trajectory_vars, launch_vars, tables_vars, overlap_vars>>

\* detect_ball(frame); best is what the network shows in the frame, circle
\* what the circle transform finds in the region searched
DetectBall(frame, best) ==
    /\ HybridCall("detect_ball")
    /\ h_frame' = frame
    /\ h_index' = h_index + 1
    /\ frame_count' = frame_count + 1
    /\ LET run    == ShouldRunYolo(yolo_available, roi, consecutive_misses,
                                   frame_count + 1)
           bbox   == IF run THEN DetectWithYolo(best, frame) ELSE None
           roi1   == IF bbox # None THEN RoiFromBBox(bbox) ELSE roi
           region == SearchRegion(frame, roi1)
       IN  /\ h_yolo_ran' = run
           /\ h_bbox' = bbox
           /\ h_search' = roi1
           /\ IF region = None
              THEN \* search_frame is unbound: UnboundLocalError
                   /\ h_raised' = TRUE
                   /\ h_hough' = <<None, 0>>
                   /\ h_ret' = None
                   /\ roi' = roi1
                   /\ UNCHANGED <<consecutive_misses, h_missrun>>
              ELSE \E circle \in {None} \cup { Some(c) : c \in CirclesIn(region) } :
                   LET found  == HoughResult(region, circle)
                       center == found[1]
                   IN  /\ h_raised' = FALSE
                       /\ h_hough' = found
                       /\ IF center # None
                          THEN /\ consecutive_misses' = 0
                               /\ h_missrun' = 0
                               /\ roi' = IF roi1 # None THEN RoiFromCenter(center)
                                         ELSE roi1
                               /\ h_ret' = Some(DetectResult(found, bbox))
                          ELSE /\ consecutive_misses' = consecutive_misses + 1
                               /\ h_missrun' = h_missrun + 1
                               /\ roi' = IF BallLost(consecutive_misses + 1)
                                         THEN None ELSE roi1
                               /\ h_ret' = Some(DetectResult(found, bbox))

\* reset()
HybridReset ==
    /\ HybridCall("reset")
    /\ roi' = None
    /\ consecutive_misses' = 0
    /\ frame_count' = 0
    /\ h_missrun' = 0
    /\ h_index' = 0
    /\ UNCHANGED <<h_frame, h_yolo_ran, h_bbox, h_search, h_hough, h_raised, h_ret>>

\* the calls of a detector that no request handler of api_server makes
HybridNext ==
    \/ /\ \E frame \in Frames, best \in {None} \cup { Some(d) : d \in Detections } :
              DetectBall(frame, best)
       /\ UNCHANGED server_vars
    \/ HybridReset /\ UNCHANGED server_vars

-----------------------------------------------------------------------------
(* HybridBallDetector: the claims *)

\* the last call was detect_ball, and it returned / found nothing / found a ball
Detected == h_op = "detect_ball"
Returned == Detected /\ ~h_raised
LocalMiss == Returned /\ h_hough[1] = None
LocalHit == Returned /\ h_hough[1] # None

\* this step is a call of detect_ball
DetectStep == h_calls' = h_calls + 1 /\ h_op' = "detect_ball"

\* C5: with the wide detector available, a frame that starts with no ROI
\* (first frame, after reset(), after the ROI was cleared) invokes the wide
\* detector, and so does the frame after miss_threshold + 1 = 4 or more
\* consecutive local misses.
C5_WideScanWhenNoRoi ==
    [][ ( /\ DetectStep
          /\ yolo_available
          /\ (roi = None \/ h_missrun >= detector_max_misses + 1) )
        => h_yolo_ran' ]_vars

\* C5 witness: the frame after four consecutive local misses started with no
\* ROI and ran the wide detector (and missed again).
C5_Witness ==
    /\ LocalMiss
    /\ yolo_available
    /\ h_missrun = detector_max_misses + 2
    /\ h_roi0 = None
    /\ h_yolo_ran

\* C6 (as claimed): in the frame after miss_threshold + 1 consecutive local
\* misses, if the wide detector returns a box, then when detect_ball returns
\* an ROI is set, whether or not the local search finds the ball in that frame
\* (the box with its margin if it does not, re-centred on the ball if it does).
C6_WideHitEstablishesRoi ==
    [][ ( /\ DetectStep
          /\ h_missrun >= detector_max_misses + 1
          /\ h_bbox' # None
          /\ ~h_raised' )
        => ( /\ roi' # None
             /\ h_search' = RoiFromBBox(h_bbox')
             /\ h_hough'[1] = None => roi' = RoiFromBBox(h_bbox') ) ]_vars

\* C7 (as claimed): the frame in which the consecutive local-miss counter
\* reaches max_misses (3) clears the ROI, so the next frame starts without one.
C7_RoiClearedAtThreshold ==
    (LocalMiss /\ consecutive_misses = detector_max_misses) => roi = None

\* C8: a frame in which the local search finds the ball at (cx, cy) while an
\* ROI is set resets consecutive_misses to 0 and sets the ROI to the 100 x 100
\* box at (max(0, cx - 50), max(0, cy - 50)), whatever the ROI was.
C8_RoiFollowsBall ==
    (LocalHit /\ h_search # None) =>
        LET cx == h_hough[1][1]
            cy == h_hough[1][2]
        IN  /\ consecutive_misses = 0
            /\ roi = << (IF cx - 50 > 0 THEN cx - 50 ELSE 0),
                        (IF cy - 50 > 0 THEN cy - 50 ELSE 0), 100, 100 >>

\* C8 witness: the ball was found less than 50 px from the frame edge inside
\* an ROI that a local detection had set.
C8_Witness ==
    /\ LocalHit /\ h_search # None
    /\ h_search[3] = roi_side
    /\ h_hough[1][1] < roi_half
    /\ roi[1] = 0
    /\ roi # h_search

\* C9 (as claimed): with the wide detector available, every frame whose index
\* since construction or reset() is a multiple of yolo_frequency (5) invokes
\* it, and a frame that starts with an ROI set invokes it only if its index is
\* a multiple of 5.
C9_PeriodicWideScan ==
    Detected =>
        /\ (yolo_available /\ h_index % yolo_frequency = 0) => h_yolo_ran
        /\ (h_roi0 # None /\ h_yolo_ran) => h_index % yolo_frequency = 0

\* C10: without the wide detector the ROI is always None, the wide detector
\* is never invoked, and every detect_ball searches the full frame and returns
\* what the local search found.
C10_HoughOnlyFallback ==
    ~yolo_available =>
        /\ roi = None
        /\ ~h_yolo_ran /\ h_bbox = None
        /\ Detected => ( /\ h_search = None
                         /\ ~h_raised
                         /\ h_ret = Some(h_hough)
                         /\ frame_count = h_index
                         /\ consecutive_misses = h_missrun )

\* C10 witness: without the wide detector, more than max_misses consecutive
\* full-frame searches found nothing; there is still no ROI and no wide scan.
C10_Witness ==
    /\ ~yolo_available
    /\ LocalMiss
    /\ h_search = None
    /\ consecutive_misses > detector_max_misses + 1
    /\ h_ret = Some(<<None, 0>>)

\* C11 (as claimed): every detect_ball call returns, and never raises: it
\* returns (None, 0) exactly when the local search found no ball in the frame
\* (also in a frame where only the wide detector returned a box), and
\* otherwise the local detector's center and radius.
C11_NoneIffLocalMiss ==
    Detected =>
        /\ ~h_raised
        /\ h_ret = Some(IF h_hough[1] = None THEN <<None, 0>> ELSE h_hough)

\* C28 (as claimed): between detect_ball calls, after any sequence of frames,
\* detector outcomes and reset() calls, consecutive_misses > max_misses implies
\* that roi is None.
C28_NoRoiAboveThreshold ==
    consecutive_misses > detector_max_misses => roi = None

\* the ROI handed to the local search of the last detect_ball, clipped to the
\* frame, was empty
DegenerateRoi ==
    Detected /\ h_search # None /\ SearchRegion(h_frame, h_search) = None

\* C29 (as claimed): on an ROI that is empty once clipped to the frame, the
\* local search does not raise: detect_ball searches the full frame and
\* returns normally, with consecutive_misses and roi updated as on any other
\* frame (a hit resets the counter and re-centres the ROI, a miss counts).
C29_DegenerateRoiFallsBack ==
    DegenerateRoi =>
        /\ ~h_raised
        /\ h_ret # None
        /\ h_hough[1] # None => (consecutive_misses = 0 /\ roi = RoiFromCenter(h_hough[1]))
        /\ h_hough[1] = None => consecutive_misses > 0

-----------------------------------------------------------------------------
(* Five-decimal fixed point *)

TScale == 100000

Abs(a) == IF a < 0 THEN -a ELSE a
Sgn(a) == IF a < 0 THEN -1 ELSE 1

\* a * b of two non-negative numbers, truncated to five decimals; the product
\* is formed from halves so that every intermediate stays within 32 bits
UMul(a, b) ==
    LET a1 == a \div TScale
        a0 == a % TScale
        b1 == b \div TScale
        b0 == b % TScale
        hb == (a0 \div 100) * b0
        lb == (a0 % 100) * b0
    IN  a1 * b1 * TScale + a1 * b0 + a0 * b1
        + hb \div 1000 + ((hb % 1000) * 100 + lb) \div TScale

\* a * b
TMul(a, b) == Sgn(a) * Sgn(b) * UMul(Abs(a), Abs(b))

\* a / b, b # 0 (a divisor of more than eight digits is cut to eight, so
\* that the long division stays within 32 bits)
TDiv(a, b) ==
    Sgn(a) * Sgn(b) *
        (IF Abs(b) < 100000000 THEN LongDiv(Abs(a), Abs(b), 5)
         ELSE LongDiv(Abs(a) \div 100, Abs(b) \div 100, 5))

\* a / n for a positive integer n
DivInt(a, n) == Sgn(a) * (Abs(a) \div n)

\* math.sqrt(n) for n >= 1.0, by Newton's iteration from g >= sqrt(n)
RECURSIVE SqrtFrom(_, _)
SqrtFrom(n, g) ==
    LET h == (g + TDiv(n, g)) \div 2
    IN  IF h >= g THEN g ELSE SqrtFrom(n, h)

\* math.sqrt(a**2 + b**2), formed as h * sqrt(1 + (l/h)**2) from the greater
\* and the lesser of |a|, |b| so that no square leaves the 32-bit range
Hypot(a, b) ==
    LET h == IF Abs(a) >= Abs(b) THEN Abs(a) ELSE Abs(b)
        l == IF Abs(a) >= Abs(b) THEN Abs(b) ELSE Abs(a)
        q == TDiv(l, h)
    IN  IF l = 0 THEN h
        ELSE TMul(h, SqrtFrom(TScale + TMul(q, q), TScale + TMul(q, q)))

\* math.pi
Pi == 314159

\* math.radians(d)
Radians(d) == TDiv(TMul(d, Pi), 180 * TScale)

\* math.degrees(r)
Degrees(r) == TDiv(TMul(r, 180 * TScale), Pi)

\* sin(r) for |r| <= pi/2: the Taylor polynomial of degree 9
SinSeries(r) ==
    LET r2 == TMul(r, r)
        t4 == TScale - DivInt(r2, 72)
        t3 == TScale - DivInt(TMul(r2, t4), 42)
        t2 == TScale - DivInt(TMul(r2, t3), 20)
        t1 == TScale - DivInt(TMul(r2, t2), 6)
    IN  TMul(r, t1)

\* math.sin(r): r is brought into [-pi, pi), then into [-pi/2, pi/2]
Sin(r) ==
    LET u == ((r + Pi) % (2 * Pi)) - Pi
        v == IF u > Pi \div 2 THEN Pi - u
             ELSE IF u < -(Pi \div 2) THEN -Pi - u
             ELSE u
    IN  SinSeries(v)

\* math.cos(r)
Cos(r) == Sin(r + Pi \div 2)

-----------------------------------------------------------------------------
(* TrajectorySimulator *)

\* self.ball_mass, kg
ball_mass == 4590

\* self.ball_diameter and self.ball_radius, m
ball_diameter == 4270
ball_radius == ball_diameter \div 2

\* self.ball_area = pi * ball_radius ** 2, kept with eight decimals (the
\* square of the radius has ten)
ball_area == TMul(ball_radius * ball_radius, Pi) \div 100

\* a * self.ball_area
MulArea(a) == DivInt(TMul(a, ball_area), 1000)

\* air density at sea level, 15 C
sea_level_density == 122500

\* self.drag_coefficient
drag_coefficient == 25000

\* self.lift_coefficient_per_spin
lift_coefficient_per_spin == 1

\* self.gravity
gravity == 981000

\* mph to m/s, metres to feet, metres to yards
mph_to_ms == 44704
m_to_ft == 328084
m_to_yards == 109361

\* dt and max_time of simulate_flight
flight_dt == 1000
max_time == 1500000

\* below this relative speed the ball has stopped
stopped_speed == 10000

\* spin decay per second
spin_decay_rate == 2000

\* defaults of simulate_flight(temperature_f=70, altitude_m=0)
default_temperature_f == 70
default_altitude_m == 0

\* set_conditions: the air density for an altitude and a temperature
SetConditions(altitude_meters, temperature_f) ==
    LET altitude_ft   == TMul(altitude_meters, m_to_ft)
        density_ratio == TScale - TMul(DivInt(altitude_ft, 1000), 4000)
        temp_c        == DivInt((temperature_f - 32 * TScale) * 5, 9)
        temp_ratio    == TDiv((273 + 15) * TScale, 273 * TScale + temp_c)
    IN  TMul(TMul(sea_level_density, density_ratio), temp_ratio)

\* v_rel of _forces: the speed of the ball in state s relative to wind w
RelativeSpeed(s, w) == Hypot(Hypot(s[4] - w[1], s[5] - w[2]), s[6])

\* _forces: the acceleration [ax, ay, az] of the ball in state s under wind w.
\* A ball that moves reads self.air_density twice, for the drag (rho_drag) and
\* for the Magnus force (rho_magnus); a stopped ball reads neither
ForcesAt(s, w, rho_drag, rho_magnus) ==
    LET vx_rel == s[4] - w[1]
        vy_rel == s[5] - w[2]
        vz_rel == s[6]
        v_rel  == RelativeSpeed(s, w)
    IN  IF v_rel < stopped_speed THEN <<0, 0, -gravity>>
        ELSE
        LET drag_magnitude ==
                MulArea(TMul(TMul(rho_drag \div 2, TMul(v_rel, v_rel)), drag_coefficient))
            drag_per_mass == TDiv(drag_magnitude, ball_mass)
            drag_x == -TMul(drag_per_mass, TDiv(vx_rel, v_rel))
            drag_y == -TMul(drag_per_mass, TDiv(vy_rel, v_rel))
            drag_z == -TMul(drag_per_mass, TDiv(vz_rel, v_rel))
            lift_coefficient == TMul(lift_coefficient_per_spin, s[7])
            spin_rad == Radians(s[8])
            magnus_magnitude ==
                TDiv(MulArea(TMul(TMul(rho_magnus \div 2, TMul(v_rel, v_rel)),
                                  lift_coefficient)), ball_mass)
            lift_z == TMul(magnus_magnitude, Cos(spin_rad))
            lift_x == TMul(magnus_magnitude, Sin(spin_rad))
            lift_y == 0
        IN  << drag_x + lift_x, drag_y + lift_y, drag_z + lift_z - gravity >>

\* _forces when self.air_density is rho at both reads
Forces(s, w, rho) == ForcesAt(s, w, rho, rho)

\* derivative of _rk4_step, its call of _forces reading rho_drag and rho_magnus
DerivativeAt(s, w, rho_drag, rho_magnus) ==
    LET a == ForcesAt(s, w, rho_drag, rho_magnus)
    IN  << s[4], s[5], s[6], a[1], a[2], a[3], -TMul(spin_decay_rate, s[7]), 0 >>

\* derivative of _rk4_step when self.air_density is rho at both reads
Derivative(s, w, rho) ==
    LET a == Forces(s, w, rho)
    IN  << s[4], s[5], s[6], a[1], a[2], a[3], -TMul(spin_decay_rate, s[7]), 0 >>

\* [s[i] + (dt / n) * k[i] for i in range(len(s))]: dt = 1/100, so dt / n is
\* a division by 100 * n
Advance(s, k, n) ==
    << s[1] + DivInt(k[1], 100 * n), s[2] + DivInt(k[2], 100 * n),
       s[3] + DivInt(k[3], 100 * n), s[4] + DivInt(k[4], 100 * n),
       s[5] + DivInt(k[5], 100 * n), s[6] + DivInt(k[6], 100 * n),
       s[7] + DivInt(k[7], 100 * n), s[8] + DivInt(k[8], 100 * n) >>

\* k1 + 2 * k2 + 2 * k3 + k4
Rk4Sum(k1, k2, k3, k4) ==
    << k1[1] + 2 * k2[1] + 2 * k3[1] + k4[1], k1[2] + 2 * k2[2] + 2 * k3[2] + k4[2],
       k1[3] + 2 * k2[3] + 2 * k3[3] + k4[3], k1[4] + 2 * k2[4] + 2 * k3[4] + k4[4],
       k1[5] + 2 * k2[5] + 2 * k3[5] + k4[5], k1[6] + 2 * k2[6] + 2 * k3[6] + k4[6],
       k1[7] + 2 * k2[7] + 2 * k3[7] + k4[7], k1[8] + 2 * k2[8] + 2 * k3[8] + k4[8] >>

\* the arguments of simulate_flight: launch speed (mph), launch angle
\* (degrees), backspin (rpm), side-spin axis (degrees), wind speed (mph) and
\* direction (degrees), with temperature_f=70 and altitude_m=0 as the
\* signature defaults them
Shot(speed, angle, backspin, axis, wind_speed, wind_direction) ==
    [launch_speed_mph |-> speed, launch_angle_deg |-> angle,
     backspin_rpm |-> backspin, side_spin_axis_deg |-> axis,
     wind_speed_mph |-> wind_speed, wind_direction_deg |-> wind_direction,
     temperature_f |-> default_temperature_f, altitude_m |-> default_altitude_m]

\* the same arguments with temperature_f and altitude_m given
ShotAt(shot, temperature_f, altitude_m) ==
    [shot EXCEPT !.temperature_f = temperature_f, !.altitude_m = altitude_m]

\* the driver shot of the module's self-test
DriverShot == Shot(145, 12, 2500, 0, 0, 0)

\* a shot whose lift exceeds gravity for more than 15 s
ClimbingShot == Shot(250, 45, 15000, 0, 0, 0)

LaunchSpeeds == {0, 140}
SpinAxes == {-20, 0, 20}
Winds == { <<0, 0>>, <<20, 0>>, <<20, 90>> }

\* the driver shot on a hot day at 3000 m
HighDriverShot == ShotAt(DriverShot, 100, 3000)

Shots ==
    { Shot(v, 14, 3200, a, w[1], w[2]) : v \in LaunchSpeeds, a \in SpinAxes, w \in Winds }
    \cup {DriverShot, ClimbingShot, HighDriverShot}

\* (altitude_meters, temperature_f) given to set_conditions between flights
ConditionsSet == { <<0, 70>>, <<3000, 50>> }

\* the same shot with the spin axis tilted to the other side
Mirror(shot) == [shot EXCEPT !.side_spin_axis_deg = -shot.side_spin_axis_deg]

\* the state after TrajectorySimulator()
TrajectoryNew ==
    /\ air_density = sea_level_density
    /\ t_pc = "idle"
    /\ t_shot = None
    /\ wind_vector = <<0, 0>>
    /\ state = None
    /\ time = 0
    /\ apex_height = 0
    /\ trajectory_points = <<>>
    /\ t_result = None
    /\ t_mirror = None

\* set_conditions(altitude_meters, temperature_f) called on the simulator
\* between two flights
CallSetConditions(altitude_meters, temperature_f) ==
    /\ t_pc \in {"idle", "done"}
    /\ air_density' = SetConditions(altitude_meters * TScale, temperature_f * TScale)
    /\ UNCHANGED <<t_pc, t_shot, wind_vector, state, time, apex_height,
                   trajectory_points, t_result, t_mirror>>
    /\ UNCHANGED <<kalman_vars, hybrid_vars, launch_vars, tables_vars, overlap_vars, server_vars>>

\* simulate_flight(shot), up to the while loop: set_conditions(altitude_m,
\* temperature_f) first
SimulateFlight(shot) ==
    /\ t_pc \in {"idle", "done"}
    /\ t_pc' = "loop"
    /\ t_shot' = shot
    /\ t_mirror' = IF t_result # None /\ t_shot = Mirror(shot) /\ t_shot # shot
                   THEN t_result[1] ELSE None
    /\ air_density' = SetConditions(shot.altitude_m * TScale,
                                    shot.temperature_f * TScale)
    /\ LET v0            == TMul(shot.launch_speed_mph * TScale, mph_to_ms)
           angle_rad     == Radians(shot.launch_angle_deg * TScale)
           wind_speed_ms == TMul(shot.wind_speed_mph * TScale, mph_to_ms)
           vx0           == TMul(v0, Cos(angle_rad))
           vy0           == 0
           vz0           == TMul(v0, Sin(angle_rad))
           wind_rad      == Radians(shot.wind_direction_deg * TScale)
           wind_x        == -TMul(wind_speed_ms, Cos(wind_rad))
           wind_y        == TMul(wind_speed_ms, Sin(wind_rad))
       IN  /\ wind_vector' = <<wind_x, wind_y>>
           /\ state' = << 0, 0, 0, vx0, vy0, vz0, shot.backspin_rpm * TScale,
                          shot.side_spin_axis_deg * TScale >>
    /\ trajectory_points' = <<>>
    /\ time' = 0
    /\ apex_height' = 0
    /\ t_result' = None
    /\ UNCHANGED <<kalman_vars, hybrid_vars, launch_vars, tables_vars, overlap_vars, server_vars>>

\* (a loop that runs one second past the cap)
TimeLeftLong(t) == t <= max_time + 100 * flight_dt

\* `time < max_time` as the loop evaluates it: time is the float sum of
\* time / dt additions of 0.01, and after 1500 of them it is
\* 14.999999999999725, still below 15.0, while the exact sum is not
TimeLeft(t) == t <= max_time

\* the while test of simulate_flight
InFlight(s, t) == s[3] >= 0 /\ TimeLeft(t)

\* the value bound to a local variable: the one element of {value}
Only(S) == CHOOSE only \in S : TRUE

\* _rk4_step(state, dt, wind_vector); each of k1 .. k4 is computed once and
\* bound, as the assignments of the code do
Rk4Step(s, w, rho) ==
    Only(UNION { UNION { UNION {
        { Advance(s, Rk4Sum(k1, k2, k3, k4), 6) :
              k4 \in {Derivative(Advance(s, k3, 1), w, rho)} } :
              k3 \in {Derivative(Advance(s, k2, 2), w, rho)} } :
              k2 \in {Derivative(Advance(s, k1, 2), w, rho)} } :
              k1 \in {Derivative(s, w, rho)} })

\* one iteration of the while loop of simulate_flight
FlightStep ==
    /\ t_pc = "loop"
    /\ InFlight(state, time)
    /\ trajectory_points' = Append(trajectory_points, <<state[1], state[2], state[3]>>)
    /\ apex_height' = IF state[3] > apex_height THEN state[3] ELSE apex_height
    /\ state' = Rk4Step(state, wind_vector, air_density)
    /\ time' = time + flight_dt
    /\ UNCHANGED <<air_density, t_pc, t_shot, wind_vector, t_result, t_mirror>>
    /\ UNCHANGED <<kalman_vars, hybrid_vars, launch_vars, tables_vars, overlap_vars, server_vars>>

\* simulate_flight after the loop: the dict returned
FlightResult(s, t, apex, points) ==
    LET carry_distance       == Hypot(s[1], s[2])
        lateral_displacement == s[2]
    IN  [ points                |-> points,
          apex_height_yards     |-> TMul(apex, m_to_yards),
          carry_distance_yards  |-> TMul(carry_distance, m_to_yards),
          curve_yards           |-> TMul(lateral_displacement, m_to_yards),
          flight_time_seconds   |-> t,
          final_spin_rpm        |-> s[7],
          num_points            |-> Len(points) ]

\* the loop of simulate_flight ends and the call returns
FlightReturn ==
    /\ t_pc = "loop"
    /\ ~InFlight(state, time)
    /\ t_result' = Some(FlightResult(state, time, apex_height, trajectory_points))
    /\ t_pc' = "done"
    /\ UNCHANGED <<air_density, t_shot, wind_vector, state, time, apex_height,
                   trajectory_points, t_mirror>>
    /\ UNCHANGED <<kalman_vars, hybrid_vars, launch_vars, tables_vars, overlap_vars, server_vars>>

TrajectoryNext ==
    \/ \E c \in ConditionsSet : CallSetConditions(c[1], c[2])
    \/ \E shot \in Shots : SimulateFlight(shot)
    \/ FlightStep
    \/ FlightReturn

-----------------------------------------------------------------------------
(* TrajectorySimulator: the claims *)

\* simulate_flight is in its loop / has returned
Flying == t_pc = "loop"
Landed == t_pc = "done"

\* the run was cut off by the 15 s cap: the loop ended with the ball still
\* at or above the ground
CapHit == Landed /\ state[3] >= 0

\* the fields of the dict that simulate_flight returns
ResultFields ==
    {"points", "apex_height_yards", "carry_distance_yards", "curve_yards",
     "flight_time_seconds", "final_spin_rpm", "num_points"}

\* the wind has no lateral component
NoLateralWind == wind_vector[2] = 0

\* C12: simulate_flight terminates: the loop stops as soon as the height is
\* below 0 or the simulated time reaches 15 s, so that it runs at most 1501
\* steps of 0.01 s (num_points <= 1501, flight_time_seconds <= 15.01), and
\* every call returns.
C12_FlightTerminates ==
    /\ [](/\ Len(trajectory_points) <= 1501
          /\ time <= 1501000
          /\ Landed => /\ t_result[1].num_points <= 1501
                       /\ t_result[1].flight_time_seconds <= 1501000
                       /\ (state[3] < 0 \/ time >= 1500000))
    /\ (Flying ~> Landed)

\* C12 witness: a call that the 15 s cap ended, after 1501 steps.
C12_Witness ==
    /\ CapHit
    /\ t_result[1].num_points = 1501
    /\ t_result[1].flight_time_seconds = 1501000

\* C13 (as claimed): the last of the points returned has height z <= 0,
\* unless the 15 s cap cut the run off, and then the result carries a flag
\* that says so.
C13_LastPointOnGround ==
    Landed =>
        LET r    == t_result[1]
            last == r.points[Len(r.points)]
        IN  \/ last[3] <= 0
            \/ CapHit /\ DOMAIN r \ ResultFields # {}

\* C14 (as claimed): with launch_speed_mph = 0 the call returns exactly one
\* point, [0, 0, 0], carry_distance_yards = 0 and apex_height_yards = 0, for
\* every backspin, side spin and wind.
C14_ZeroSpeedAtOrigin ==
    (Landed /\ t_shot.launch_speed_mph = 0) =>
        /\ t_result[1].points = << <<0, 0, 0>> >>
        /\ t_result[1].carry_distance_yards = 0
        /\ t_result[1].apex_height_yards = 0

\* C15 (as claimed): with zero wind, the shot with side_spin_axis_deg = -a
\* returns the negated curve_yards of the shot with +a and the same
\* carry_distance_yards and flight_time_seconds; a = 0 gives curve_yards = 0.
C15_MirrorSymmetry ==
    (Landed /\ t_shot.wind_speed_mph = 0) =>
        /\ t_shot.side_spin_axis_deg = 0 => t_result[1].curve_yards = 0
        /\ t_mirror # None =>
              /\ t_result[1].curve_yards = -t_mirror.curve_yards
              /\ t_result[1].carry_distance_yards = t_mirror.carry_distance_yards
              /\ t_result[1].flight_time_seconds = t_mirror.flight_time_seconds

\* C16 (as claimed): with no lateral wind, a positive launch speed and
\* backspin, side_spin_axis_deg > 0 yields curve_yards > 0 and
\* side_spin_axis_deg < 0 yields curve_yards < 0.
C16_CurveFollowsSpinAxis ==
    ( /\ Landed
      /\ NoLateralWind
      /\ t_shot.launch_speed_mph > 0
      /\ t_shot.backspin_rpm > 0 ) =>
        /\ t_shot.side_spin_axis_deg > 0 => t_result[1].curve_yards > 0
        /\ t_shot.side_spin_axis_deg < 0 => t_result[1].curve_yards < 0

\* C17 (as claimed): the driver shot (145 mph, 12 degrees, 2500 rpm, no side
\* spin, no wind, sea level, 70 F) returns carry_distance_yards in 220..260,
\* apex_height_yards in 25..40 and flight_time_seconds in 5.5..7.0.
C17_DriverShotRanges ==
    (Landed /\ t_shot = DriverShot) =>
        /\ t_result[1].carry_distance_yards >= 220 * TScale
        /\ t_result[1].carry_distance_yards <= 260 * TScale
        /\ t_result[1].apex_height_yards >= 25 * TScale
        /\ t_result[1].apex_height_yards <= 40 * TScale
        /\ t_result[1].flight_time_seconds >= 550000
        /\ t_result[1].flight_time_seconds <= 700000

-----------------------------------------------------------------------------
(* LaunchVectorCalculator (no calibrator) *)

Min(a, b) == IF a <= b THEN a ELSE b

\* atan(q) for 0 <= q <= 0.2: the Taylor polynomial of degree 9
AtanSeries(q) ==
    LET q2 == TMul(q, q)
        t4 == DivInt(TScale, 7) - DivInt(q2, 9)
        t3 == DivInt(TScale, 5) - TMul(q2, t4)
        t2 == DivInt(TScale, 3) - TMul(q2, t3)
        t1 == TScale - TMul(q2, t2)
    IN  TMul(q, t1)

\* tan(a / 2) from q = tan(a), 0 <= q <= 1
HalfAngle(q) == TDiv(q, TScale + SqrtFrom(TScale + TMul(q, q), TScale + TMul(q, q)))

\* atan(q) for 0 <= q <= 1, as 4 * atan of the tangent of the quarter angle
AtanUnit(q) == 4 * AtanSeries(HalfAngle(HalfAngle(q)))

\* math.atan2(b, a), in radians; a and b are in any common unit
Atan2(b, a) ==
    IF a = 0 /\ b = 0 THEN 0
    ELSE LET base == IF Abs(a) >= Abs(b) THEN AtanUnit(TDiv(Abs(b), Abs(a)))
                     ELSE Pi \div 2 - AtanUnit(TDiv(Abs(a), Abs(b)))
         IN  IF a >= 0 THEN (IF b >= 0 THEN base ELSE -base)
             ELSE (IF b >= 0 THEN Pi - base ELSE -(Pi - base))

\* frames of a trajectory used for the launch
launch_window == 10

\* index of the frame that closes the angle estimate
angle_frame == 5

\* golf ball radius in metres, and the pixels it is assumed to span
ball_radius_m == 2140
ball_radius_px == 10

\* m/s to mph
ms_to_mph == 223700

\* the clamp range of the launch angle, its plausible range and the default
\* returned outside it
min_angle == 0
max_angle == 45
plausible_min_angle == 5
plausible_max_angle == 30
default_angle == 12

\* _calculate_confidence: point counts, speed range and factors
few_points == 5
very_few_points == 3
min_speed_mph == 50
max_speed_mph == 250
few_points_factor == 70000
very_few_points_factor == 40000
speed_factor == 50000
angle_factor == 60000

\* _calculate_linearity when the regression is degenerate
degenerate_linearity == 50000

\* _calculate_speed(points) with timestamps and no calibrator
CalculateSpeed(points) ==
    IF Len(points) < 2 THEN [speed_mph |-> 0, speed_ms |-> 0]
    ELSE LET first == points[1]
             last  == points[Len(points)]
             dx_px == (last.x - first.x) * TScale
             dy_px == (last.y - first.y) * TScale
             displacement_px == Hypot(dx_px, dy_px)
             delta_t == last.timestamp - first.timestamp
             estimated_px_per_m == TDiv(ball_radius_px * TScale, ball_radius_m)
             displacement_m == TDiv(displacement_px, estimated_px_per_m)
         IN  IF delta_t <= 0 THEN [speed_mph |-> 0, speed_ms |-> 0]
             ELSE [ speed_ms |-> TDiv(displacement_m, delta_t),
                    speed_mph |-> TMul(TDiv(displacement_m, delta_t), ms_to_mph),
                    displacement_m |-> displacement_m,
                    time_s |-> delta_t ]

\* _calculate_launch_angle: the pixel-based estimate
PixelAngle(points) ==
    LET first == points[1]
        last  == points[Min(angle_frame, Len(points) - 1) + 1]
        dx    == last.x - first.x
        dy    == last.y - first.y
    IN  IF Abs(dx) > 1 THEN Degrees(Atan2(-dy, dx)) ELSE 0

\* max(0, min(45, a))
ClampAngle(a) == Max(min_angle * TScale, Min(max_angle * TScale, a))

\* (an angle is replaced only outside the clamp range)
ImplausibleOutsideClamp(a) == a < min_angle * TScale \/ a > max_angle * TScale

\* the test that replaces the angle by the default
Implausible(a) == a < plausible_min_angle * TScale \/ a > plausible_max_angle * TScale

\* _calculate_launch_angle(points, gyro_data)
CalculateLaunchAngle(points, gyro_data) ==
    IF Len(points) < 3 THEN [angle |-> default_angle * TScale, method |-> "default"]
    ELSE LET pixel_angle == PixelAngle(points)
             corrected_angle ==
                 ClampAngle(IF gyro_data # None THEN pixel_angle + gyro_data[1]
                            ELSE pixel_angle)
         IN  IF Implausible(corrected_angle)
             THEN [angle |-> default_angle * TScale, method |-> "default_typical"]
             ELSE [angle |-> corrected_angle, method |-> "calculated"]

\* _calculate_direction(points, compass_heading)
CalculateDirection(points, compass_heading) ==
    IF Len(points) < 2
    THEN [direction |-> compass_heading, method |-> "compass_only"]
    ELSE LET first == points[1]
             last  == points[Len(points)]
             dx    == last.x - first.x
             dy    == last.y - first.y
             pixel_angle == IF Abs(dx) > 1 \/ Abs(dy) > 1
                            THEN Degrees(Atan2(dy, dx)) ELSE 0
         IN  [ direction |-> (compass_heading + pixel_angle) % (360 * TScale),
               pixel_offset |-> pixel_angle,
               method |-> "compass_plus_pixels" ]

\* sum and greatest magnitude of f[1], ..., f[n]
RECURSIVE SumTo(_, _)
SumTo(f, n) == IF n = 0 THEN 0 ELSE f[n] + SumTo(f, n - 1)
RECURSIVE MaxAbsTo(_, _)
MaxAbsTo(f, n) == IF n = 0 THEN 0 ELSE Max(Abs(f[n]), MaxAbsTo(f, n - 1))

\* _calculate_linearity: R squared of the regression of y on x.  The
\* deviations from the means are taken in units of the greatest one (R squared
\* does not depend on the unit), so that the sums stay within 32 bits.
CalculateLinearity(positions) ==
    LET n  == Len(positions)
        xs == [i \in 1..n |-> positions[i][1]]
        ys == [i \in 1..n |-> positions[i][2]]
        x_sum == SumTo(xs, n)
        y_sum == SumTo(ys, n)
        \* n * (x - x_mean) and n * (y - y_mean)
        xd == [i \in 1..n |-> n * xs[i] - x_sum]
        yd == [i \in 1..n |-> n * ys[i] - y_sum]
        xm == MaxAbsTo(xd, n)
        ym == MaxAbsTo(yd, n)
    IN  IF n < 3 THEN TScale
        ELSE IF xm = 0 \/ ym = 0 THEN degenerate_linearity
        ELSE LET u == [i \in 1..n |-> TDiv(xd[i], xm)]
                 v == [i \in 1..n |-> TDiv(yd[i], ym)]
                 numerator == SumTo([i \in 1..n |-> TMul(u[i], v[i])], n)
                 sxx == SumTo([i \in 1..n |-> TMul(u[i], u[i])], n)
                 syy == SumTo([i \in 1..n |-> TMul(v[i], v[i])], n)
             IN  TDiv(TMul(numerator, numerator), TMul(sxx, syy))

\* the penalty for few points
PointsFactor(n) ==
    IF n < few_points THEN few_points_factor
    ELSE IF n < very_few_points THEN very_few_points_factor
    ELSE TScale

\* (a confidence that averages the factors)
CalculateConfidenceAveraged(points, speed_result, angle_result) ==
    LET f1 == PointsFactor(Len(points))
        speed_mph == speed_result.speed_mph
        f2 == IF speed_mph < min_speed_mph * TScale \/ speed_mph > max_speed_mph * TScale
              THEN speed_factor ELSE TScale
        angle == angle_result.angle
        f3 == IF angle < min_angle * TScale \/ angle > max_angle * TScale
              THEN angle_factor ELSE TScale
        f4 == IF Len(points) >= 3
              THEN CalculateLinearity([i \in 1..Len(points) |->
                                          <<points[i].x, points[i].y>>])
              ELSE TScale
    IN  Max(0, Min(TScale, (f1 + f2 + f3 + f4) \div 4))

\* _calculate_confidence(points, speed_result, angle_result)
CalculateConfidence(points, speed_result, angle_result) ==
    LET c1 == TMul(TScale, PointsFactor(Len(points)))
        speed_mph == speed_result.speed_mph
        c2 == IF speed_mph < min_speed_mph * TScale \/ speed_mph > max_speed_mph * TScale
              THEN TMul(c1, speed_factor) ELSE c1
        angle == angle_result.angle
        c3 == IF angle < min_angle * TScale \/ angle > max_angle * TScale
              THEN TMul(c2, angle_factor) ELSE c2
        c4 == IF Len(points) >= 3
              THEN TMul(c3, CalculateLinearity([i \in 1..Len(points) |->
                                                   <<points[i].x, points[i].y>>]))
              ELSE c3
    IN  Max(0, Min(TScale, c4))

\* the trajectories handed to the calculator: n points that start at
\* (100, 200) and move by (dx, -dy) pixels a frame, every second one displaced
\* by bend pixels, frame_time apart
Track(n, dx, dy, bend, frame_time) ==
    [i \in 1..n |-> [ x |-> 100 + (i - 1) * dx,
                      y |-> 200 - (i - 1) * dy + (IF i % 2 = 0 THEN bend ELSE 0),
                      timestamp |-> (i - 1) * frame_time ]]

TrackLengths == {0, 1, 2, 3, 4, 12}

\* (dx, dy, bend, frame_time): the track of the module's self-test (20 px
\* right and 5 px up every 33 ms), a bent one, a fast flat one, one faster
\* than any golf ball, a vertical one, a horizontal one, a falling one and
\* one at 45 degrees
Motions ==
    { <<20, 5, 0, 3300>>, <<20, 2, 3, 3300>>, <<400, 20, 0, 3300>>,
      <<400, 100, 3, 400>>, <<1, 5, 0, 3300>>, <<20, 0, 0, 3300>>,
      <<20, -5, 0, 3300>>, <<20, 20, 0, 3300>> }

Tracks == { Track(n, m[1], m[2], m[3], m[4]) : n \in TrackLengths, m \in Motions }

\* gyro_data: None or the tilt of the phone in degrees
Tilts == {None, Some(5 * TScale), Some(30 * TScale)}

\* the state after LaunchVectorCalculator()
LaunchNew ==
    /\ l_op = "new"
    /\ l_points = <<>>
    /\ l_gyro = None
    /\ l_speed_result = None
    /\ l_angle_result = None
    /\ l_direction_result = None
    /\ l_confidence = None
    /\ l_result = None
    /\ l_methods = {}

\* the fewest points calculate_launch_vector works with
min_points == 3

\* (a test that lets two points through)
TooFewPointsLax(n) == n < min_points - 1

\* len(trajectory_points) < 3
TooFewPoints(n) == n < min_points

\* calculate_launch_vector(track, gyro_data=gyro_data), track being the
\* trajectory_points argument
CalculateLaunchVector(track, gyro_data) ==
    /\ l_op' = "calculate_launch_vector"
    /\ l_points' = track
    /\ l_gyro' = gyro_data
    /\ IF TooFewPoints(Len(track))
       THEN /\ l_result' = [ speed_mph |-> 0, launch_angle |-> 0, direction |-> 0,
                             confidence |-> 0,
                             error |-> "Not enough trajectory points" ]
            /\ l_speed_result' = None
            /\ l_angle_result' = None
            /\ l_direction_result' = None
            /\ l_confidence' = None
            /\ UNCHANGED l_methods
       ELSE LET launch_frames == SubSeq(track, 1,
                                        Min(launch_window, Len(track)))
                speed_result == CalculateSpeed(launch_frames)
                angle_result == CalculateLaunchAngle(launch_frames, gyro_data)
                direction_result == CalculateDirection(launch_frames, 0)
                confidence == CalculateConfidence(launch_frames, speed_result,
                                                  angle_result)
            IN  /\ l_speed_result' = Some(speed_result)
                /\ l_angle_result' = Some(angle_result)
                /\ l_direction_result' = Some(direction_result)
                /\ l_confidence' = Some(confidence)
                /\ l_result' = [ speed_mph |-> speed_result.speed_mph,
                                 speed_ms |-> speed_result.speed_ms,
                                 launch_angle |-> angle_result.angle,
                                 direction |-> direction_result.direction,
                                 confidence |-> confidence,
                                 frames_used |-> Len(launch_frames),
                                 method |-> "trajectory_analysis" ]
                /\ l_methods' = l_methods \cup
                       { <<"trajectory_analysis", angle_result.method # "calculated">> }
    /\ UNCHANGED <<kalman_vars, hybrid_vars, trajectory_vars, tables_vars, overlap_vars, server_vars>>

LaunchNext ==
    \E points \in Tracks, tilt \in Tilts : CalculateLaunchVector(points, tilt)

-----------------------------------------------------------------------------
(* LaunchVectorCalculator: the claims *)

\* the last call was calculate_launch_vector with a window of at least 3 points
Calculated == l_op = "calculate_launch_vector" /\ Len(l_points) >= 3

\* the tilt-corrected pixel angle of the last call: the angle of the line
\* from the first point to the sixth (or to the last of a shorter window)
\* above the horizontal, plus the tilt of the phone
TiltCorrectedAngle ==
    LET n     == Len(l_points)
        first == l_points[1]
        last  == l_points[(IF n - 1 < 5 THEN n - 1 ELSE 5) + 1]
        dx    == last.x - first.x
        dy    == last.y - first.y
        pixel == IF dx > 1 \/ dx < -1 THEN Degrees(Atan2(-dy, dx)) ELSE 0
    IN  pixel + (IF l_gyro = None THEN 0 ELSE l_gyro[1])

\* C18: for a window of at least 3 points, the launch_angle returned is the
\* tilt-corrected pixel angle clamped to [0, 45] degrees when that clamped
\* value lies in [5, 30], and exactly 12 otherwise.
C18_LaunchAngleClampedOrDefault ==
    Calculated =>
        LET a       == TiltCorrectedAngle
            clamped == IF a < 0 THEN 0 ELSE IF a > 45 * TScale THEN 45 * TScale ELSE a
        IN  l_result.launch_angle =
                IF clamped >= 5 * TScale /\ clamped <= 30 * TScale
                THEN clamped ELSE 12 * TScale

\* C18 witness: a measured angle was returned for a tilted phone (the pixel
\* angle alone is below 5 degrees), and it is not the default.
C18_Witness ==
    /\ Calculated
    /\ l_gyro # None
    /\ TiltCorrectedAngle - l_gyro[1] < 5 * TScale
    /\ l_result.launch_angle = TiltCorrectedAngle
    /\ l_result.launch_angle # 12 * TScale

\* C21: calculate_launch_vector called with fewer than 3 points (0, 1 or 2)
\* returns speed 0, launch angle 0, direction 0 and confidence 0 together with
\* an error marker, and runs none of the speed, angle, direction or confidence
\* computations.
C21_TooFewPointsIsError ==
    (l_op = "calculate_launch_vector" /\ Len(l_points) < 3) =>
        /\ l_result = [ speed_mph |-> 0, launch_angle |-> 0, direction |-> 0,
                        confidence |-> 0,
                        error |-> "Not enough trajectory points" ]
        /\ l_speed_result = None
        /\ l_angle_result = None
        /\ l_direction_result = None
        /\ l_confidence = None

\* C21 witness: a call with two points returned the error result.
C21_Witness ==
    /\ l_op = "calculate_launch_vector"
    /\ Len(l_points) = 2
    /\ "error" \in DOMAIN l_result
    /\ l_result.confidence = 0

\* C19 (as claimed): the method field of the result tells whether the launch
\* angle was measured from the points or replaced by the 12-degree default:
\* no value of method is returned in both cases.
C19_MethodTellsAssumed ==
    \A p, q \in l_methods : p[1] = q[1] => p[2] = q[2]

\* C20: the confidence computed for a point window is the product, clamped
\* to [0, 1], of 0.4 for fewer than 3 points or 0.7 for fewer than 5, 0.5 for
\* a speed outside 50..250 mph, 0.6 for an angle outside [0, 45], and the
\* R-squared linearity of the points.
C20_ConfidenceIsProduct ==
    l_confidence # None =>
        LET window == SubSeq(l_points, 1, Min(10, Len(l_points)))
            n      == Len(window)
            speed  == l_speed_result[1].speed_mph
            angle  == l_angle_result[1].angle
            f_n    == IF n < 3 THEN 40000 ELSE IF n < 5 THEN 70000 ELSE TScale
            f_v    == IF speed < 50 * TScale \/ speed > 250 * TScale
                      THEN 50000 ELSE TScale
            f_a    == IF angle < 0 \/ angle > 45 * TScale THEN 60000 ELSE TScale
            f_r    == CalculateLinearity([i \in 1..n |-> <<window[i].x, window[i].y>>])
            c      == TMul(TMul(TMul(f_n, f_v), f_a), f_r)
        IN  l_confidence[1] = (IF c < 0 THEN 0 ELSE IF c > TScale THEN TScale ELSE c)

\* C20 witness: a window of fewer than 5 points with a speed outside 50..250
\* mph: both penalties lower the confidence, to no more than 0.7 * 0.5.
C20_Witness ==
    /\ Calculated
    /\ Len(l_points) < 5
    /\ \/ l_speed_result[1].speed_mph < 50 * TScale
       \/ l_speed_result[1].speed_mph > 250 * TScale
    /\ l_confidence[1] > 0
    /\ l_confidence[1] <= 35000

-----------------------------------------------------------------------------
(* TrajectorySimulator: simulate_flight calls that overlap on one instance *)

\* the calls in progress at the same time
Runs == {1, 2}

\* two short shots: one of four time steps, and a ball launched at 0 mph,
\* which _forces finds stopped
ShortShot == Shot(22, 1, 2500, 0, 0, 0)
StillShot == Shot(0, 1, 2500, 0, 0, 0)

\* (temperature_f, altitude_m) of the overlapping calls
FlightConditions == { <<70, 0>>, <<100, 3000>> }

\* the arguments of the overlapping calls
OverlapShots ==
    { ShotAt(shot, c[1], c[2]) : shot \in {ShortShot, StillShot}, c \in FlightConditions }

\* wind_vector of simulate_flight
WindVector(shot) ==
    LET wind_speed_ms == TMul(shot.wind_speed_mph * TScale, mph_to_ms)
        wind_rad      == Radians(shot.wind_direction_deg * TScale)
    IN  << -TMul(wind_speed_ms, Cos(wind_rad)), TMul(wind_speed_ms, Sin(wind_rad)) >>

\* the initial state of simulate_flight
InitialState(shot) ==
    LET v0        == TMul(shot.launch_speed_mph * TScale, mph_to_ms)
        angle_rad == Radians(shot.launch_angle_deg * TScale)
    IN  << 0, 0, 0, TMul(v0, Cos(angle_rad)), 0, TMul(v0, Sin(angle_rad)),
           shot.backspin_rpm * TScale, shot.side_spin_axis_deg * TScale >>

\* no call has begun
OverlapNew ==
    /\ run_pc = [r \in Runs |-> "idle"]
    /\ run_call = [r \in Runs |-> None]
    /\ run_wind = [r \in Runs |-> None]
    /\ run_state = [r \in Runs |-> None]
    /\ run_time = [r \in Runs |-> 0]
    /\ run_apex = [r \in Runs |-> 0]
    /\ run_points = [r \in Runs |-> <<>>]
    /\ run_k = [r \in Runs |-> <<>>]
    /\ run_drag = [r \in Runs |-> None]
    /\ run_density = [r \in Runs |-> {}]
    /\ run_result = [r \in Runs |-> None]

\* what a step of one of the overlapping calls leaves alone
OverlapFrame ==
    /\ UNCHANGED <<t_pc, t_shot, wind_vector, state, time, apex_height,
                   trajectory_points, t_result, t_mirror>>
    /\ UNCHANGED <<kalman_vars, hybrid_vars, launch_vars, tables_vars, server_vars>>

\* call r enters simulate_flight: set_conditions writes self.air_density, then
\* the code before the loop
RunStart(r, shot) ==
    /\ run_pc[r] = "idle"
    /\ run_pc' = [run_pc EXCEPT ![r] = "loop"]
    /\ run_call' = [run_call EXCEPT ![r] = Some(shot)]
    /\ air_density' = SetConditions(shot.altitude_m * TScale, shot.temperature_f * TScale)
    /\ run_wind' = [run_wind EXCEPT ![r] = WindVector(shot)]
    /\ run_state' = [run_state EXCEPT ![r] = InitialState(shot)]
    /\ run_time' = [run_time EXCEPT ![r] = 0]
    /\ run_apex' = [run_apex EXCEPT ![r] = 0]
    /\ run_points' = [run_points EXCEPT ![r] = <<>>]
    /\ UNCHANGED <<run_k, run_drag, run_density, run_result>>
    /\ OverlapFrame

\* the argument of the derivative call of _rk4_step that follows k1 .. kn:
\* state, state + dt/2 * k1, state + dt/2 * k2, state + dt * k3
StageState(s, k) ==
    CASE Len(k) = 0 -> s
      [] Len(k) = 1 -> Advance(s, k[1], 2)
      [] Len(k) = 2 -> Advance(s, k[2], 2)
      [] Len(k) = 3 -> Advance(s, k[3], 1)

\* the top of the while loop in call r, passed by the step that begins an
\* iteration: the point is appended and the apex tracked before _rk4_step
LoopTop(r) ==
    IF run_k[r] = <<>>
    THEN /\ run_points' = [run_points EXCEPT
                              ![r] = Append(@, <<run_state[r][1], run_state[r][2],
                                                 run_state[r][3]>>)]
         /\ run_apex' = [run_apex EXCEPT
                            ![r] = IF run_state[r][3] > @ THEN run_state[r][3] ELSE @]
    ELSE UNCHANGED <<run_points, run_apex>>

\* a derivative call of _rk4_step in call r returns k: after k4 the new state
\* is assembled and the time advanced
StageDone(r, k) ==
    IF Len(run_k[r]) < 3
    THEN /\ run_k' = [run_k EXCEPT ![r] = Append(@, k)]
         /\ UNCHANGED <<run_state, run_time>>
    ELSE /\ run_k' = [run_k EXCEPT ![r] = <<>>]
         /\ run_state' = [run_state EXCEPT
                             ![r] = Advance(@, Rk4Sum(run_k[r][1], run_k[r][2],
                                                      run_k[r][3], k), 6)]
         /\ run_time' = [run_time EXCEPT ![r] = @ + flight_dt]

\* _forces in call r reads self.air_density for the drag
RunReadDrag(r) ==
    /\ run_pc[r] = "loop"
    /\ InFlight(run_state[r], run_time[r])
    /\ run_drag[r] = None
    /\ RelativeSpeed(StageState(run_state[r], run_k[r]), run_wind[r]) >= stopped_speed
    /\ LoopTop(r)
    /\ run_drag' = [run_drag EXCEPT ![r] = Some(air_density)]
    /\ run_density' = [run_density EXCEPT ![r] = @ \cup {air_density}]
    /\ UNCHANGED <<air_density, run_pc, run_call, run_wind, run_state, run_time, run_k,
                   run_result>>
    /\ OverlapFrame

\* _forces in call r reads self.air_density for the Magnus force and returns,
\* and so does the derivative call
RunReadMagnus(r) ==
    /\ run_pc[r] = "loop"
    /\ run_drag[r] # None
    /\ StageDone(r, DerivativeAt(StageState(run_state[r], run_k[r]), run_wind[r],
                                 run_drag[r][1], air_density))
    /\ run_drag' = [run_drag EXCEPT ![r] = None]
    /\ run_density' = [run_density EXCEPT ![r] = @ \cup {air_density}]
    /\ UNCHANGED <<air_density, run_pc, run_call, run_wind, run_apex, run_points,
                   run_result>>
    /\ OverlapFrame

\* a derivative call in call r on a stopped ball: _forces returns before it
\* reads self.air_density (the density arguments are not used)
RunStageStopped(r) ==
    /\ run_pc[r] = "loop"
    /\ InFlight(run_state[r], run_time[r])
    /\ run_drag[r] = None
    /\ RelativeSpeed(StageState(run_state[r], run_k[r]), run_wind[r]) < stopped_speed
    /\ LoopTop(r)
    /\ StageDone(r, DerivativeAt(StageState(run_state[r], run_k[r]), run_wind[r], 0, 0))
    /\ UNCHANGED <<air_density, run_pc, run_call, run_wind, run_drag, run_density,
                   run_result>>
    /\ OverlapFrame

\* the loop of call r ends and the call returns
RunReturn(r) ==
    /\ run_pc[r] = "loop"
    /\ run_k[r] = <<>>
    /\ run_drag[r] = None
    /\ ~InFlight(run_state[r], run_time[r])
    /\ run_result' = [run_result EXCEPT
                         ![r] = Some(FlightResult(run_state[r], run_time[r], run_apex[r],
                                                  run_points[r]))]
    /\ run_pc' = [run_pc EXCEPT ![r] = "done"]
    /\ UNCHANGED <<air_density, run_call, run_wind, run_state, run_time, run_apex,
                   run_points, run_k, run_drag, run_density>>
    /\ OverlapFrame

OverlapNext ==
    \/ \E r \in Runs, shot \in OverlapShots : RunStart(r, shot)
    \/ \E r \in Runs : RunReadDrag(r)
    \/ \E r \in Runs : RunReadMagnus(r)
    \/ \E r \in Runs : RunStageStopped(r)
    \/ \E r \in Runs : RunReturn(r)

\* the loop of simulate_flight run from (s, t, apex, points) to its end at
\* air density rho, and the dict returned
RECURSIVE FlightAlone(_, _, _, _, _, _)
FlightAlone(s, t, apex, points, w, rho) ==
    IF InFlight(s, t)
    THEN Only({ FlightAlone(n, t + flight_dt, IF s[3] > apex THEN s[3] ELSE apex,
                            Append(points, <<s[1], s[2], s[3]>>), w, rho) :
                    n \in {Rk4Step(s, w, rho)} })
    ELSE FlightResult(s, t, apex, points)

\* what simulate_flight returns for these arguments when no other call runs
SimulateAlone(call) ==
    FlightAlone(InitialState(call), 0, 0, <<>>, WindVector(call),
                SetConditions(call.altitude_m * TScale, call.temperature_f * TScale))

\* the air density of a call's own arguments
OwnDensity(call) == SetConditions(call.altitude_m * TScale, call.temperature_f * TScale)

\* C25 (as claimed): of two simulate_flight calls that overlap on one
\* simulator, each integrates with the air density of its own temperature and
\* altitude only, and each returns what it returns when it runs alone.
C25_OverlappingRunsIndependent ==
    \A r \in Runs :
        /\ run_call[r] # None => run_density[r] \subseteq {OwnDensity(run_call[r][1])}
        /\ run_pc[r] = "done" => run_result[r][1] = SimulateAlone(run_call[r][1])

-----------------------------------------------------------------------------
(* api_server: /api/detect_frame, /api/analyze_shot and /api/analyze, whose
   handlers run in threads of their own on the module's detector and tracker,
   without a lock.  A step of a handler inside detector.detect_ball or
   tracker.update is one read or one write of a field of the shared object,
   together with the computation on locals that follows it (the calls of the
   network, of cv2.HoughCircles and of np.linalg.inv included); the threads
   interleave between any two such steps.  A step of a handler outside these
   calls is the code from the return of one call to the start of the next; what analyze_shot and process_video compute
   after their last call, in objects of their own, is the answer "analysis".
   The records of the last call of the single-threaded specifications (h_op
   .., k_op ..) are not kept by these steps *)

\* the clients that send requests
Clients == {"a", "b"}

\* the frames without a ball that follow the frame with the ball in the
\* longest sequence of frames a client sends
MissFrames == 4

\* the frames the clients send: all of one size
ServerFrames == { <<200, 200>> }

\* the module's tracker: KalmanTracker(process_noise=1.5, measurement_noise=5.0,
\* dt=0.15)
ServerProcessNoise == 1500
ServerMeasurementNoise == 5000
ServerDt == 150

\* analyze_shot: frames_b64[:15], `len(frames) < 5`, `len(trajectory_points)
\* < 3`, frames[:5]
shot_frames_limit == 15
shot_frames_needed == 5
shot_points_needed == 3
shot_radius_frames == 5

\* process_video: N_FRAMES_TO_ANALYZE, `len(positions) < 2`
N_FRAMES_TO_ANALYZE == 10
positions_needed == 2

\* what a frame shows: the detection the network selects in it (None for
\* none) and the circle the transform reports first in the region it
\* searches (None for none)
Scene(best, circle) == [best |-> best, circle |-> circle]

\* no ball; a ball; a box the network reports outside the image
EmptyScene == Scene(None, None)
BallScene  == Scene(None, Some(<<70, 60, 8>>))
StrayScene == Scene(Some(<<800, 100, 40, 40>>), None)

\* a request: the endpoint's handler and the decoded frames
Request(handler, frames) == [handler |-> handler, frames |-> frames]

\* the requests of one frame
FrameRequests ==
    { Request("detect_frame", <<scene>>) : scene \in {EmptyScene, BallScene, StrayScene} }

\* the videos
VideoRequests ==
    { Request("analyze_video", [i \in 1 .. 2 |-> scene]) : scene \in {EmptyScene, BallScene} }

\* the shots
ShotRequests ==
    { Request("analyze_shot", [i \in 1 .. n |-> scene]) :
          n \in {1, shot_frames_needed}, scene \in {EmptyScene, BallScene} }

\* a round of requests: what each client sends in it, a sequence of requests,
\* each sent at any time after the one before is answered
Sends(from_a, from_b) == [c \in Clients |-> IF c = "a" THEN from_a ELSE from_b]

\* a frame with a ball; a frame without
BallFrame == Request("detect_frame", <<BallScene>>)
EmptyFrame == Request("detect_frame", <<EmptyScene>>)

\* the shots in which no frame shows a ball
MissedShots ==
    { r \in ShotRequests : \A i \in 1 .. Len(r.frames) : r.frames[i] = EmptyScene }

\* the runs, each a sequence of rounds, a round being sent when the round
\* before is answered: client a sends a frame, a video or a shot without a
\* ball and client b a frame or a video; client a sends a shot or a video,
\* then client b a frame; client a sends a frame with a ball and MissFrames
\* frames without, then both clients a frame without a ball
ServerRuns ==
    { << Sends(<<f>>, <<g>>) >> : f \in FrameRequests \cup VideoRequests \cup MissedShots,
                                   g \in FrameRequests \cup VideoRequests }
    \cup { << Sends(<<r>>, <<>>), Sends(<<>>, <<g>>) >> :
               r \in ShotRequests \cup VideoRequests, g \in FrameRequests }
    \cup { << Sends(<<BallFrame>> \o [i \in 1 .. MissFrames |-> EmptyFrame], <<>>),
              Sends(<<EmptyFrame>>, <<EmptyFrame>>) >> }

\* the ROI, the miss counters and the Kalman state a frame is processed with
Tracking == <<roi, consecutive_misses, miss_count, is_initialized, x, P>>

\* the same of a detector and a tracker just constructed
FreshTracking == <<None, 0, 0, FALSE, None, None>>

\* a call of detect_ball or update in progress: the statement the thread is
\* at and its locals (val: the value read or computed last; bbox; y_innov; K)
Call(at, val, bbox, y_innov, K) ==
    [at |-> at, val |-> val, bbox |-> bbox, y_innov |-> y_innov, K |-> K]

\* no call in progress; a call just entered
NoCall == Call("idle", None, None, None, None)
Enter  == Call("enter", None, None, None, None)

\* no request yet, the rounds of a run to send
ServerNew(rounds) ==
    /\ s_plan = rounds
    /\ s_req = [c \in Clients |-> None]
    /\ s_pc = [c \in Clients |-> "idle"]
    /\ s_call = [c \in Clients |-> NoCall]
    /\ s_i = [c \in Clients |-> 0]
    /\ s_found = [c \in Clients |-> None]
    /\ s_points = [c \in Clients |-> 0]
    /\ s_fed = [c \in Clients |-> <<>>]
    /\ s_answer = [c \in Clients |-> None]
    /\ s_start = [c \in Clients |-> FreshTracking]
    /\ s_expected = [c \in Clients |-> FreshTracking]
    /\ s_left = [c \in Clients |-> FreshTracking]

\* measurement of detect_frame: (center[0], center[1], radius) if center else
\* None
MeasurementOf(ret) == IF ret[1] # None THEN Some(<<ret[1][1], ret[1][2], ret[2]>>) ELSE None

\* the handler of client c leaves the objects alone
HandlerStep ==
    UNCHANGED <<kalman_vars, hybrid_vars, trajectory_vars, launch_vars, tables_vars,
                overlap_vars>>

\* the handler of client c goes on to its next call
GoOn(c, pc, i, found, points) ==
    /\ s_pc' = [s_pc EXCEPT ![c] = pc]
    /\ s_call' = [s_call EXCEPT ![c] = Enter]
    /\ s_i' = [s_i EXCEPT ![c] = i]
    /\ s_found' = [s_found EXCEPT ![c] = found]
    /\ s_points' = [s_points EXCEPT ![c] = points]
    /\ UNCHANGED <<s_plan, s_req, s_fed, s_answer, s_start, s_expected, s_left>>

\* the handler of client c returns
Answer(c, answer) ==
    /\ s_pc' = [s_pc EXCEPT ![c] = "idle"]
    /\ s_call' = [s_call EXCEPT ![c] = NoCall]
    /\ s_req' = [s_req EXCEPT ![c] = None]
    /\ s_i' = [s_i EXCEPT ![c] = 0]
    /\ s_points' = [s_points EXCEPT ![c] = 0]
    /\ s_answer' = [s_answer EXCEPT ![c] = Some(answer)]
    /\ s_left' = [s_left EXCEPT ![c] = Tracking]
    /\ UNCHANGED <<s_plan, s_found, s_fed, s_start, s_expected>>

\* the rounds yet to send, the round at the head being the one in progress:
\* a round all sent and all answered is over
Rounds ==
    IF /\ s_plan # <<>>
       /\ \A c \in Clients : s_plan[1][c] = <<>> /\ s_pc[c] = "idle"
    THEN Tail(s_plan) ELSE s_plan

\* the next request of client c arrives: the handler up to its first call of
\* detector.detect_ball.  analyze_shot answers 400 to fewer than 5 frames,
\* process_video answers "Not enough ball positions" to a video without frames:
\* the request is over, and leaves the tracked state as it is at this return
Receive(c) ==
    /\ s_pc[c] = "idle"
    /\ Rounds # <<>>
    /\ Rounds[1][c] # <<>>
    /\ s_plan' = << [Rounds[1] EXCEPT ![c] = Tail(Rounds[1][c])] >> \o Tail(Rounds)
    /\ s_start' = [s_start EXCEPT ![c] = Tracking]
    /\ s_expected' = [s_expected EXCEPT ![c] = s_left[c]]
    /\ s_fed' = [s_fed EXCEPT ![c] = <<>>]
    /\ \E req \in {Head(Rounds[1][c])} :
       IF \/ req.handler = "analyze_shot" /\ Len(req.frames) < shot_frames_needed
          \/ req.frames = <<>>
       THEN /\ s_answer' = [s_answer EXCEPT ![c] = Some("400")]
            /\ s_left' = [s_left EXCEPT ![c] = Tracking]
            /\ UNCHANGED <<s_req, s_pc, s_call, s_i, s_found, s_points>>
       ELSE /\ s_req' = [s_req EXCEPT ![c] = Some(req)]
            /\ s_pc' = [s_pc EXCEPT ![c] = "detect"]
            /\ s_call' = [s_call EXCEPT ![c] = Enter]
            /\ s_i' = [s_i EXCEPT ![c] = 1]
            /\ UNCHANGED <<s_found, s_points, s_answer, s_left>>
    /\ HandlerStep

(* detector.detect_ball(frame), statement by statement *)

\* the thread of client c is in detect_ball, at one of the statements ats
InDetectBall(c, ats) ==
    /\ s_pc[c] \in {"detect", "recheck"}
    /\ s_call[c].at \in ats

\* the frame client c's handler is at shows
SceneOf(c) == s_req[c][1].frames[s_i[c]]

\* a step of client c in detect_ball: it goes to statement at with the locals
\* val and bbox, and leaves the detector with new_roi, new_misses, new_count
DetectorStep(c, at, val, bbox, new_roi, new_misses, new_count) ==
    /\ s_call' = [s_call EXCEPT ![c] = Call(at, val, bbox, None, None)]
    /\ roi' = new_roi
    /\ consecutive_misses' = new_misses
    /\ frame_count' = new_count
    /\ UNCHANGED <<yolo_available, h_op, h_frame, h_roi0, h_yolo_ran, h_bbox, h_search,
                   h_hough, h_raised, h_ret, h_missrun, h_index, h_calls>>
    /\ UNCHANGED <<kalman_vars, trajectory_vars, launch_vars, tables_vars, overlap_vars>>
    /\ UNCHANGED <<s_plan, s_req, s_pc, s_i, s_found, s_points, s_fed, s_answer,
                   s_start, s_expected, s_left>>

\* `self.frame_count += 1`: the read, then the write; `self.yolo_available
\* and (` of should_run_yolo
DetectCount(c) ==
    /\ InDetectBall(c, {"enter", "count"})
    /\ IF s_call[c].at = "enter"
       THEN DetectorStep(c, "count", frame_count, None, roi, consecutive_misses,
                         frame_count)
       ELSE DetectorStep(c, IF yolo_available THEN "roi_none" ELSE "hough", None, None,
                         roi, consecutive_misses, s_call[c].val + 1)

\* should_run_yolo: `self.roi is None or`, `self.consecutive_misses >
\* self.max_misses or`, `self.frame_count % self.yolo_frequency == 0`, each a
\* read of its own
DetectDecide(c) ==
    /\ InDetectBall(c, {"roi_none", "misses_over", "periodic"})
    /\ \E run \in {CASE s_call[c].at = "roi_none" -> roi = None
                     [] s_call[c].at = "misses_over" -> BallLost(consecutive_misses)
                     [] s_call[c].at = "periodic" -> frame_count % yolo_frequency = 0} :
           DetectorStep(c, IF run THEN "yolo"
                           ELSE CASE s_call[c].at = "roi_none" -> "misses_over"
                                  [] s_call[c].at = "misses_over" -> "periodic"
                                  [] s_call[c].at = "periodic" -> "hough",
                        None, None, roi, consecutive_misses, frame_count)

\* bbox = self._detect_with_yolo(frame); `if bbox:` self.roi = the box with
\* its margin
DetectYolo(c) ==
    /\ InDetectBall(c, {"yolo"})
    /\ \E frame \in ServerFrames :
       \E bbox \in {DetectWithYolo(SceneOf(c).best, frame)} :
           DetectorStep(c, "hough", None, bbox,
                        IF bbox # None THEN RoiFromBBox(bbox) ELSE roi,
                        consecutive_misses, frame_count)

\* center, radius = self._detect_with_hough(frame, self.roi): the read of
\* self.roi, then the search, which finds the scene's circle when it lies in
\* the region searched; with an empty region search_frame is unbound
DetectHough(c) ==
    /\ InDetectBall(c, {"hough"})
    /\ \E frame \in ServerFrames :
       \E region \in {SearchRegion(frame, roi)}, circle \in {SceneOf(c).circle} :
           IF region = None
           THEN DetectorStep(c, "raised", None, s_call[c].bbox, roi, consecutive_misses,
                             frame_count)
           ELSE \E found \in {HoughResult(region,
                                          IF circle # None /\ circle[1] \in CirclesIn(region)
                                          THEN circle ELSE None)} :
                DetectorStep(c, IF found[1] # None THEN "hit" ELSE "miss", found,
                             s_call[c].bbox, roi, consecutive_misses, frame_count)

\* `if center:` self.consecutive_misses = 0; `if self.roi:`; self.roi = the
\* ROI around the center; return center, radius
DetectHit(c) ==
    /\ InDetectBall(c, {"hit", "roi_set", "follow"})
    /\ \E found \in {s_call[c].val}, bbox \in {s_call[c].bbox} :
       CASE s_call[c].at = "hit" ->
                DetectorStep(c, "roi_set", found, bbox, roi, 0, frame_count)
         [] s_call[c].at = "roi_set" ->
                IF roi # None
                THEN DetectorStep(c, "follow", found, bbox, roi, consecutive_misses,
                                  frame_count)
                ELSE DetectorStep(c, "returned", DetectResult(found, bbox), bbox, roi,
                                  consecutive_misses, frame_count)
         [] s_call[c].at = "follow" ->
                DetectorStep(c, "returned", DetectResult(found, bbox), bbox,
                             RoiFromCenter(found[1]), consecutive_misses, frame_count)

\* `else:` self.consecutive_misses += 1 (the read, then the write); `if
\* self.consecutive_misses > self.max_misses:`; self.roi = None; return None, 0
DetectMiss(c) ==
    /\ InDetectBall(c, {"miss", "miss_write", "lost", "clear"})
    /\ \E bbox \in {s_call[c].bbox} :
       CASE s_call[c].at = "miss" ->
                DetectorStep(c, "miss_write", consecutive_misses, bbox, roi,
                             consecutive_misses, frame_count)
         [] s_call[c].at = "miss_write" ->
                DetectorStep(c, "lost", None, bbox, roi, s_call[c].val + 1, frame_count)
         [] s_call[c].at = "lost" ->
                IF BallLost(consecutive_misses)
                THEN DetectorStep(c, "clear", None, bbox, roi, consecutive_misses,
                                  frame_count)
                ELSE DetectorStep(c, "returned", DetectResult(<<None, 0>>, bbox), bbox,
                                  roi, consecutive_misses, frame_count)
         [] s_call[c].at = "clear" ->
                DetectorStep(c, "returned", DetectResult(<<None, 0>>, bbox), bbox,
                             None, consecutive_misses, frame_count)

(* tracker.update(measurement), statement by statement *)

\* the thread of client c is in update, at one of the statements ats
InUpdate(c, ats) ==
    /\ s_pc[c] = "update"
    /\ s_call[c].at \in ats

\* a step of client c in update: it goes on as call, and leaves the tracker
\* with new_x, new_P, new_initialized, new_misses
TrackerStep(c, call, new_x, new_P, new_initialized, new_misses) ==
    /\ s_call' = [s_call EXCEPT ![c] = call]
    /\ s_fed' = [s_fed EXCEPT ![c] = <<MeasurementOf(s_found[c])>>]
    /\ x' = new_x
    /\ P' = new_P
    /\ is_initialized' = new_initialized
    /\ miss_count' = new_misses
    /\ UNCHANGED <<process_noise, measurement_noise, dt, k_op, k_arg, k_ret, k_raised,
                   k_x0, k_P0, k_was_init, k_miss0, k_discards, k_nones, k_calls>>
    /\ UNCHANGED <<hybrid_vars, trajectory_vars, launch_vars, tables_vars, overlap_vars>>
    /\ UNCHANGED <<s_plan, s_req, s_pc, s_i, s_found, s_points, s_answer,
                   s_start, s_expected, s_left>>

\* a step of update that writes nothing
TrackerRead(c, at, val) ==
    TrackerStep(c, Call(at, val, None, s_call[c].y_innov, s_call[c].K), x, P,
                is_initialized, miss_count)

\* the statement of update after self.predict(): `if self.x is not None:`
\* without a measurement, `y_innov = z - self.H @ self.x` with one
AfterPredict(c) == IF MeasurementOf(s_found[c]) = None THEN "seen" ELSE "innov"

\* `if measurement is None:` self.miss_count += 1 (the read, then the write);
\* `if self.miss_count >= self.max_misses:` self.is_initialized = False;
\* self.x = None; self.P = None; return None
UpdateMiss(c) ==
    /\ InUpdate(c, {"enter", "miss_write", "miss_test", "drop", "drop_x", "drop_P"})
    /\ MeasurementOf(s_found[c]) = None
    /\ CASE s_call[c].at = "enter" -> TrackerRead(c, "miss_write", miss_count)
         [] s_call[c].at = "miss_write" ->
                TrackerStep(c, Call("miss_test", None, None, None, None), x, P,
                            is_initialized, s_call[c].val + 1)
         [] s_call[c].at = "miss_test" ->
                TrackerRead(c, IF TrackLost(miss_count) THEN "drop" ELSE "predict", None)
         [] s_call[c].at = "drop" ->
                TrackerStep(c, Call("drop_x", None, None, None, None), x, P, FALSE,
                            miss_count)
         [] s_call[c].at = "drop_x" ->
                TrackerStep(c, Call("drop_P", None, None, None, None), None, P,
                            is_initialized, miss_count)
         [] s_call[c].at = "drop_P" ->
                TrackerStep(c, Call("returned", None, None, None, None), x, None,
                            is_initialized, miss_count)

\* `if not self.is_initialized:` self.x = the measurement at rest; self.P =
\* np.eye(4) * 100; self.is_initialized = True; self.miss_count = 0; return
\* the dict of the measurement
UpdateInit(c) ==
    /\ InUpdate(c, {"enter", "init_x", "init_P", "init_flag", "init_misses"})
    /\ MeasurementOf(s_found[c]) # None
    /\ \E m \in {MeasurementOf(s_found[c])[1]} :
       CASE s_call[c].at = "enter" ->
                TrackerRead(c, IF ~is_initialized THEN "init_x" ELSE "predict", None)
         [] s_call[c].at = "init_x" ->
                TrackerStep(c, Call("init_P", None, None, None, None), InitX(m), P,
                            is_initialized, miss_count)
         [] s_call[c].at = "init_P" ->
                TrackerStep(c, Call("init_flag", None, None, None, None), x, InitP,
                            is_initialized, miss_count)
         [] s_call[c].at = "init_flag" ->
                TrackerStep(c, Call("init_misses", None, None, None, None), x, P, TRUE,
                            miss_count)
         [] s_call[c].at = "init_misses" ->
                TrackerStep(c, Call("returned", None, None, None, None), x, P,
                            is_initialized, InitMissCount(miss_count))

\* self.predict() in update: `if not self.is_initialized: return None`;
\* self.x = self.F @ self.x; self.P = self.F @ self.P @ self.F.T + self.Q,
\* each the read with the product, then the write.  A product with None raises
UpdatePredict(c) ==
    /\ InUpdate(c, {"predict", "predict_x", "predict_P", "predicted_x", "predicted_P"})
    /\ CASE s_call[c].at = "predict" ->
                TrackerRead(c, IF ~is_initialized THEN AfterPredict(c) ELSE "predict_x",
                            None)
         [] s_call[c].at = "predict_x" ->
                IF x = None THEN TrackerRead(c, "raised", None)
                ELSE TrackerRead(c, "predicted_x", PredictX(x))
         [] s_call[c].at = "predicted_x" ->
                TrackerStep(c, Call("predict_P", None, None, None, None), s_call[c].val,
                            P, is_initialized, miss_count)
         [] s_call[c].at = "predict_P" ->
                IF P = None THEN TrackerRead(c, "raised", None)
                ELSE TrackerRead(c, "predicted_P", PredictP(P))
         [] s_call[c].at = "predicted_P" ->
                TrackerStep(c, Call(AfterPredict(c), None, None, None, None), x,
                            s_call[c].val, is_initialized, miss_count)

\* the correction of update: y_innov = z - self.H @ self.x; S = self.H @
\* self.P @ self.H.T + self.R; K = self.P @ self.H.T @ np.linalg.inv(S);
\* self.x = self.x + K @ y_innov; self.P = (I - K @ self.H) @ self.P;
\* self.miss_count = 0: each read with the computation that follows it, each
\* write a step of its own.  A product with None and the inverse of a
\* singular S raise
UpdateCorrect(c) ==
    /\ InUpdate(c, {"innov", "S", "gain", "correct_x", "corrected_x", "correct_P",
                    "corrected_P", "correct_misses"})
    /\ \E m \in {MeasurementOf(s_found[c])[1]} :
       \E z \in {<< <<Float(m[1])>>, <<Float(m[2])>> >>} :
       \E y_innov \in {s_call[c].y_innov}, K \in {s_call[c].K} :
       CASE s_call[c].at = "innov" ->
                IF x = None THEN TrackerRead(c, "raised", None)
                ELSE TrackerStep(c, Call("S", None, None, MatSub(z, MatMul(H, x)), None),
                                 x, P, is_initialized, miss_count)
         [] s_call[c].at = "S" ->
                IF P = None THEN TrackerRead(c, "raised", None)
                ELSE TrackerRead(c, "gain", MatAdd(MatMul(MatMul(H, P), MatT(H)), R))
         [] s_call[c].at = "gain" ->
                IF P = None \/ Singular(s_call[c].val) THEN TrackerRead(c, "raised", None)
                ELSE TrackerStep(c, Call("correct_x", None, None, y_innov,
                                         MatMulFine(MatMul(P, MatT(H)),
                                                    Inv2(s_call[c].val))),
                                 x, P, is_initialized, miss_count)
         [] s_call[c].at = "correct_x" ->
                IF x = None THEN TrackerRead(c, "raised", None)
                ELSE TrackerRead(c, "corrected_x", MatAdd(x, MatMul(K, y_innov)))
         [] s_call[c].at = "corrected_x" ->
                TrackerStep(c, Call("correct_P", None, None, y_innov, K), s_call[c].val,
                            P, is_initialized, miss_count)
         [] s_call[c].at = "correct_P" ->
                IF P = None THEN TrackerRead(c, "raised", None)
                ELSE TrackerRead(c, "corrected_P",
                                 MatMul(MatSub(Eye(4, Scale), MatMul(K, H)), P))
         [] s_call[c].at = "corrected_P" ->
                TrackerStep(c, Call("correct_misses", None, None, None, None), x,
                            s_call[c].val, is_initialized, miss_count)
         [] s_call[c].at = "correct_misses" ->
                TrackerStep(c, Call("state", None, None, None, None), x, P,
                            is_initialized, CorrectMissCount(miss_count))

\* the return of update after a prediction: `if self.x is not None:` without
\* a measurement (return None otherwise), and the dict of float(self.x[0]) ..
\* float(self.x[3]), each a read of self.x of its own, which raises for None;
\* val is the entries read so far
UpdateReturn(c) ==
    /\ InUpdate(c, {"seen", "state"})
    /\ IF s_call[c].at = "seen"
       THEN TrackerRead(c, IF x # None THEN "state" ELSE "returned", None)
       ELSE IF x = None THEN TrackerRead(c, "raised", None)
            ELSE \E entries \in {Append(s_call[c].val, x[Len(s_call[c].val) + 1][1])} :
                 TrackerRead(c, IF Len(entries) < 4 THEN "state" ELSE "returned", entries)

(* the handlers, from the return of a call to the next call *)

\* the call client c is in has returned or raised
CallOver(c) == s_call[c].at \in {"returned", "raised"}

\* the frames the first loop of analyze_shot goes through
ShotFrames(req) ==
    IF Len(req.frames) < shot_frames_limit THEN Len(req.frames) ELSE shot_frames_limit

\* the frames the second loop of analyze_shot goes through
RadiusFrames(req) ==
    IF Len(req.frames) < shot_radius_frames THEN Len(req.frames) ELSE shot_radius_frames

\* analyze_shot after frame i of its first loop, with points tracked so far
NextShotFrame(c, found, points) ==
    IF s_i[c] < ShotFrames(s_req[c][1])
    THEN GoOn(c, "detect", s_i[c] + 1, found, points)
    ELSE IF points < shot_points_needed
         THEN Answer(c, "400")
         ELSE GoOn(c, "recheck", 1, found, points)

\* center, radius = detector.detect_ball(frame) has returned in detect_frame,
\* in the first loop of analyze_shot or in the loop of process_video: the code
\* that follows up to the next call; an exception is answered with 500
ServeDetect(c) ==
    /\ s_pc[c] = "detect"
    /\ CallOver(c)
    /\ HandlerStep
    /\ IF s_call[c].at = "raised" THEN Answer(c, "500")
       ELSE \E found \in {s_call[c].val}, req \in {s_req[c][1]} :
            CASE req.handler = "detect_frame" ->
                     GoOn(c, "update", s_i[c], found, s_points[c])
              [] req.handler = "analyze_shot" ->
                     IF found[1] # None
                     THEN GoOn(c, "update", s_i[c], found, s_points[c])
                     ELSE NextShotFrame(c, found, s_points[c])
              [] req.handler = "analyze_video" ->
                     \E positions \in {IF found[1] # None THEN s_points[c] + 1
                                       ELSE s_points[c]} :
                     IF s_i[c] < Len(req.frames) /\ positions < N_FRAMES_TO_ANALYZE
                     THEN GoOn(c, "detect", s_i[c] + 1, found, positions)
                     ELSE Answer(c, IF positions < positions_needed THEN "400"
                                    ELSE "analysis")

\* state = tracker.update(measurement) has returned in detect_frame or in the
\* first loop of analyze_shot: the code that follows up to the next call
ServeUpdate(c) ==
    /\ s_pc[c] = "update"
    /\ CallOver(c)
    /\ HandlerStep
    /\ IF s_call[c].at = "raised" THEN Answer(c, "500")
       ELSE IF s_req[c][1].handler = "detect_frame"
            THEN Answer(c, "200")
            ELSE NextShotFrame(c, s_found[c], s_points[c] + 1)

\* center, radius = detector.detect_ball(frame) has returned in the second
\* loop of analyze_shot, which collects the radii; the launch vector and the
\* trajectories follow
ServeRecheck(c) ==
    /\ s_pc[c] = "recheck"
    /\ CallOver(c)
    /\ HandlerStep
    /\ IF s_call[c].at = "raised" THEN Answer(c, "500")
       ELSE IF s_i[c] < RadiusFrames(s_req[c][1])
            THEN GoOn(c, "recheck", s_i[c] + 1, s_call[c].val, s_points[c])
            ELSE Answer(c, "analysis")

ServerNext ==
    \/ \E c \in Clients : Receive(c)
    \/ \E c \in Clients : DetectCount(c)
    \/ \E c \in Clients : DetectDecide(c)
    \/ \E c \in Clients : DetectYolo(c)
    \/ \E c \in Clients : DetectHough(c)
    \/ \E c \in Clients : DetectHit(c)
    \/ \E c \in Clients : DetectMiss(c)
    \/ \E c \in Clients : ServeDetect(c)
    \/ \E c \in Clients : UpdateMiss(c)
    \/ \E c \in Clients : UpdateInit(c)
    \/ \E c \in Clients : UpdatePredict(c)
    \/ \E c \in Clients : UpdateCorrect(c)
    \/ \E c \in Clients : UpdateReturn(c)
    \/ \E c \in Clients : ServeUpdate(c)
    \/ \E c \in Clients : ServeRecheck(c)

\* C26 (as claimed): the frames of different clients are tracked
\* independently: every request is processed with the ROI, the miss counters
\* and the Kalman state that the previous request of the same client left
\* (those of a fresh detector and tracker for a client's first frame),
\* whatever the other clients sent in between, and the tracker is updated with
\* the detection of the request's own frame.
C26_ClientsTrackedIndependently ==
    \A c \in Clients :
        /\ s_pc[c] # "idle" => s_start[c] = s_expected[c]
        /\ (s_fed[c] # <<>> /\ s_found[c] # None) => s_fed[c][1] = MeasurementOf(s_found[c])

-----------------------------------------------------------------------------
(* generate_archetype_tables *)

\* ShotArchetype(name, spin_rate, spin_axis, launch_angle, ball_speed,
\* curve_factor)
ShotArchetype(name, spin_rate, spin_axis, launch_angle, ball_speed, curve_factor) ==
    [name |-> name, spin_rate |-> spin_rate, spin_axis |-> spin_axis,
     launch_angle |-> launch_angle, ball_speed |-> ball_speed,
     curve_factor |-> curve_factor]

\* ARCHETYPES; curve_factor in fixed point
ARCHETYPES ==
    << ShotArchetype("high_slice", 3500, 30, 18, 150, 300000),
       ShotArchetype("high_straight", 3000, 0, 16, 155, 0),
       ShotArchetype("high_hook", 3500, -30, 18, 150, -300000),
       ShotArchetype("medium_fade", 2500, 15, 12, 160, 150000),
       ShotArchetype("straight", 2000, 0, 11, 165, 0),
       ShotArchetype("medium_draw", 2500, -15, 12, 160, -150000),
       ShotArchetype("low_fade", 1800, 10, 8, 170, 100000),
       ShotArchetype("low_straight", 1500, 0, 7, 175, 0),
       ShotArchetype("low_draw", 1800, -10, 8, 170, -100000) >>

\* the speed percentages of generate_speed_variants
SpeedPercents == <<60, 70, 80, 90, 100, 110, 120>>

\* dt of calculate_trajectory
table_dt == 2000

\* `t < 0.1` of the while test, the break tests `v < 0.01` and `t > 15`
min_flight_time == 10000
min_speed == 1000
table_max_time == 1500000

\* cl, the lift coefficient of calculate_trajectory, and the factors of the
\* lateral and the vertical Magnus acceleration
table_cl == 15000
magnus_curve_share == 10000
magnus_lift_share == 30000

\* round(v, d) for m = 10^(5 - d): the nearest multiple of m, a tie to the
\* even one
RoundTo(v, m) ==
    LET q == Abs(v) \div m
        r == Abs(v) % m
    IN  Sgn(v) * m * (IF 2 * r > m \/ (2 * r = m /\ q % 2 = 1) THEN q + 1 ELSE q)

\* meters_to_yards(m)
MetersToYards(m) == TMul(m, m_to_yards)

\* the state of calculate_trajectory before its loop
TrajectoryStart(archetype, speed_pct) ==
    LET v0        == TMul(archetype.ball_speed * speed_pct * (TScale \div 100), mph_to_ms)
        angle_rad == Radians(archetype.launch_angle * TScale)
    IN  << 0, 0, 0, TMul(v0, Cos(angle_rad)), TMul(v0, Sin(angle_rad)), 0, 0 >>

\* the while test of calculate_trajectory
Airborne(gs) == gs[2] >= 0 \/ gs[7] < min_flight_time

\* v of calculate_trajectory
SpeedOf(gs) == Hypot(Hypot(gs[4], gs[5]), gs[6])

\* one pass of the loop body of calculate_trajectory after the point is
\* recorded, for v >= 0.01: the accelerations, then velocities, then positions
\* (forces are kept with eight decimals where they are small)
TrajectoryAdvance(archetype, gs) ==
    LET vx == gs[4]
        vy == gs[5]
        vz == gs[6]
        v  == SpeedOf(gs)
        half_rho == sea_level_density \div 2
        Fd == MulArea(TMul(TMul(half_rho, drag_coefficient), TMul(v, v)))
        ax_drag == -TDiv(TMul(Fd, TDiv(vx, v)), ball_mass)
        ay_drag == -TDiv(TMul(Fd, TDiv(vy, v)), ball_mass)
        az_drag == -TDiv(TMul(Fd, TDiv(vz, v)), ball_mass)
        \* rpm * 2 * pi / 60, formed as rpm * pi / 30 to stay within 32 bits
        spin_rad_s == (archetype.spin_rate * Pi) \div 30
        spin_axis_rad == Radians(archetype.spin_axis * TScale)
        \* Fm with eight decimals
        Fm == TMul(TMul(TMul(TMul(half_rho, table_cl), v),
                        TMul(spin_rad_s, ball_radius)), ball_area)
        az_magnus == DivInt(TMul(TMul(TDiv(TMul(Fm, Sin(spin_axis_rad)), ball_mass),
                                      archetype.curve_factor),
                                 magnus_curve_share), 1000)
        ay_lift == DivInt(TMul(TDiv(TMul(Fm, Cos(spin_axis_rad)), ball_mass),
                               magnus_lift_share), 1000)
        ax  == ax_drag
        ay  == -gravity + ay_drag + ay_lift
        az  == az_drag + az_magnus
        vx1 == vx + TMul(ax, table_dt)
        vy1 == vy + TMul(ay, table_dt)
        vz1 == vz + TMul(az, table_dt)
    IN  << gs[1] + TMul(vx1, table_dt), gs[2] + TMul(vy1, table_dt),
           gs[3] + TMul(vz1, table_dt), vx1, vy1, vz1, gs[7] + table_dt >>

\* max(p.y for p in trajectory)
MaxHeight(trajectory) ==
    CHOOSE h \in {trajectory[i].y : i \in DOMAIN trajectory} :
        \A i \in DOMAIN trajectory : trajectory[i].y <= h

\* curve_direction of a variant
CurveDirection(total_curve) ==
    IF total_curve > 0 THEN "right" ELSE IF total_curve < 0 THEN "left" ELSE "straight"

\* curve_type of an archetype
CurveType(archetype) ==
    IF archetype.curve_factor > 0 THEN "slice"
    ELSE IF archetype.curve_factor < 0 THEN "hook" ELSE "straight"

\* the entry of generate_speed_variants for one speed, with the fields of the
\* archetype's table that generate_all_lookup_tables writes next to it
TableEntry(archetype, speed_pct, trajectory) ==
    LET last == trajectory[Len(trajectory)]
        max_height     == MaxHeight(trajectory)
        total_distance == last.x
        total_curve    == last.z
        flight_time    == last.t
    IN  [ archetype           |-> archetype.name,
          typical_spin_rpm    |-> archetype.spin_rate,
          spin_axis_degrees   |-> archetype.spin_axis,
          typical_launch_angle |-> archetype.launch_angle,
          curve_type          |-> CurveType(archetype),
          speed_pct           |-> speed_pct,
          speed_mph           |-> RoundTo(archetype.ball_speed * speed_pct * (TScale \div 100),
                                          10000),
          carry_yards         |-> RoundTo(MetersToYards(total_distance), 10000),
          max_height_yards    |-> RoundTo(MetersToYards(max_height), 10000),
          curve_yards         |-> RoundTo(MetersToYards(Abs(total_curve)), 10000),
          curve_direction     |-> CurveDirection(total_curve),
          flight_time_seconds |-> RoundTo(flight_time, 1000),
          points              |-> [i \in 1..Len(trajectory) |->
                                      [x |-> RoundTo(trajectory[i].x, 100),
                                       y |-> RoundTo(trajectory[i].y, 100),
                                       z |-> RoundTo(trajectory[i].z, 100),
                                       t |-> RoundTo(trajectory[i].t, 100)]] ]

\* before generate_all_lookup_tables
TablesNew ==
    /\ g_pc = "idle"
    /\ g_archetype = 1
    /\ g_speed = 1
    /\ g_state = None
    /\ g_trajectory = <<>>
    /\ g_entry = None

\* generate_speed_variants calls calculate_trajectory(archetype, multiplier)
\* for the next speed: the code before the while loop
CalculateTrajectory ==
    /\ g_pc = "idle"
    /\ g_pc' = "loop"
    /\ g_state' = TrajectoryStart(ARCHETYPES[g_archetype], SpeedPercents[g_speed])
    /\ g_trajectory' = <<>>
    /\ UNCHANGED <<g_archetype, g_speed, g_entry>>
    /\ UNCHANGED <<kalman_vars, hybrid_vars, trajectory_vars, launch_vars, overlap_vars, server_vars>>

\* one iteration of the while loop of calculate_trajectory
TrajectoryStep ==
    /\ g_pc = "loop"
    /\ Airborne(g_state)
    /\ g_trajectory' = Append(g_trajectory, [x |-> g_state[1], y |-> g_state[2],
                                             z |-> g_state[3], t |-> g_state[7]])
    /\ IF SpeedOf(g_state) < min_speed
       THEN /\ g_pc' = "break"
            /\ UNCHANGED g_state
       ELSE \E gs \in {TrajectoryAdvance(ARCHETYPES[g_archetype], g_state)} :
               /\ g_state' = gs
               /\ g_pc' = IF gs[7] > table_max_time THEN "break" ELSE "loop"
    /\ UNCHANGED <<g_archetype, g_speed, g_entry>>
    /\ UNCHANGED <<kalman_vars, hybrid_vars, trajectory_vars, launch_vars, overlap_vars, server_vars>>

\* calculate_trajectory returns; generate_speed_variants writes the entry and
\* goes on to the next speed, generate_all_lookup_tables to the next archetype
WriteEntry ==
    /\ \/ g_pc = "break"
       \/ g_pc = "loop" /\ ~Airborne(g_state)
    /\ g_entry' = Some(TableEntry(ARCHETYPES[g_archetype], SpeedPercents[g_speed],
                                  g_trajectory))
    /\ IF g_speed < Len(SpeedPercents)
       THEN g_speed' = g_speed + 1 /\ g_archetype' = g_archetype /\ g_pc' = "idle"
       ELSE IF g_archetype < Len(ARCHETYPES)
       THEN g_speed' = 1 /\ g_archetype' = g_archetype + 1 /\ g_pc' = "idle"
       ELSE UNCHANGED <<g_speed, g_archetype>> /\ g_pc' = "end"
    /\ UNCHANGED <<g_state, g_trajectory>>
    /\ UNCHANGED <<kalman_vars, hybrid_vars, trajectory_vars, launch_vars, overlap_vars, server_vars>>

TablesNext == CalculateTrajectory \/ TrajectoryStep \/ WriteEntry

\* The entry written last has a speed of whole miles per hour.
WholeMph(e) == e.speed_mph % TScale = 0

\* simulate_flight's arguments for the inputs of a table entry, without wind
EntryShot(e) ==
    Shot(e.speed_mph \div TScale, e.typical_launch_angle, e.typical_spin_rpm,
         e.spin_axis_degrees, 0, 0)

\* simulate_flight has returned for the inputs of the entry written last (or
\* there is no entry to compare)
Compared ==
    IF g_entry = None THEN TRUE
    ELSE IF ~WholeMph(g_entry[1]) THEN TRUE
    ELSE t_pc = "done" /\ t_shot = EntryShot(g_entry[1])

\* The generator, and after every entry of whole miles per hour a call of
\* simulate_flight with the inputs of that entry and no wind.
TablesFlightNext ==
    \/ Compared /\ CalculateTrajectory
    \/ Compared /\ TrajectoryStep
    \/ Compared /\ WriteEntry
    \/ ~Compared /\ SimulateFlight(EntryShot(g_entry[1]))
    \/ FlightStep
    \/ FlightReturn

-----------------------------------------------------------------------------
(* generate_archetype_tables: the claims *)

\* C27 (as claimed): the curve_direction of every variant agrees with the
\* spin axis of its archetype: 'right' for spin_axis > 0 (slice, fade), 'left'
\* for spin_axis < 0 (hook, draw), 'straight' for spin_axis = 0, at every
\* speed, so that a variant of an archetype whose curve_type is 'hook' is
\* never 'right'.
C27_CurveDirectionFollowsSpinAxis ==
    g_entry # None =>
        LET e == g_entry[1]
        IN  /\ e.spin_axis_degrees > 0 => e.curve_direction = "right"
            /\ e.spin_axis_degrees < 0 => e.curve_direction = "left"
            /\ e.spin_axis_degrees = 0 => e.curve_direction = "straight"
            /\ e.curve_type = "hook" => e.curve_direction # "right"

\* the last digit the table writes: a tenth of a yard, a hundredth of a second
yards_ulp == 10000
seconds_ulp == 1000

\* C24 (as claimed): every entry of the lookup tables is what simulate_flight
\* returns for the same speed, launch angle, spin rate and spin axis without
\* wind, rounded as the table rounds it: carry, height, curve and flight time
\* agree to the last digit written and the trajectories have the same number
\* of points.
C24_TableEntryIsSimulateFlight ==
    (g_entry # None /\ WholeMph(g_entry[1]) /\ Compared) =>
        LET e == g_entry[1]
            r == t_result[1]
        IN  /\ Abs(e.carry_yards - RoundTo(r.carry_distance_yards, yards_ulp)) <= yards_ulp
            /\ Abs(e.max_height_yards - RoundTo(r.apex_height_yards, yards_ulp)) <= yards_ulp
            /\ Abs(e.curve_yards - RoundTo(Abs(r.curve_yards), yards_ulp)) <= yards_ulp
            /\ Abs(e.flight_time_seconds - RoundTo(r.flight_time_seconds, seconds_ulp))
                   <= seconds_ulp
            /\ Len(e.points) = r.num_points

-----------------------------------------------------------------------------
(* Specifications: one tracker, one detector, one simulator, one calculator *)

\* a KalmanTracker with the default configuration, under any calls (the
\* detector beside it stays as constructed)
InitKalman == KalmanInit /\ HybridNew(FALSE) /\ TrajectoryNew /\ LaunchNew /\ TablesNew /\ OverlapNew /\ ServerNew(<<>>)
SpecKalman == InitKalman /\ [][KalmanNext]_vars

\* a tracker constructed with any of the configurations
InitKalmanConfig ==
    /\ \E c \in Configs : KalmanNew(c[1], c[2], c[3])
    /\ HybridNew(FALSE) /\ TrajectoryNew /\ LaunchNew /\ TablesNew /\ OverlapNew /\ ServerNew(<<>>)
KalmanConfigNext == k_calls < MaxConfigCalls /\ KalmanNext
SpecKalmanConfig == InitKalmanConfig /\ [][KalmanConfigNext]_vars

\* a HybridBallDetector, with or without the YOLO model, under any frames (the
\* tracker beside it stays as constructed)
InitHybrid == KalmanInit /\ HybridInit /\ TrajectoryNew /\ LaunchNew /\ TablesNew /\ OverlapNew /\ ServerNew(<<>>)
SpecHybrid == InitHybrid /\ [][HybridNext]_vars

\* a TrajectorySimulator, under any sequence of simulate_flight calls (the
\* tracker and the detector beside it stay as constructed)
InitTrajectory == KalmanInit /\ HybridNew(FALSE) /\ TrajectoryNew /\ LaunchNew /\ TablesNew /\ OverlapNew /\ ServerNew(<<>>)
SpecTrajectory == InitTrajectory /\ [][TrajectoryNext]_vars

\* The loop of a call in progress runs its body (time += dt), and a call
\* whose loop has ended returns.  Among the steps of TrajectoryNext those of
\* FlightStep are the ones that satisfy LoopAdvances and those of
\* FlightReturn the ones that satisfy LoopExits.
LoopAdvances == Flying /\ InFlight(state, time) /\ time' = time + flight_dt
LoopExits == Flying /\ ~InFlight(state, time) /\ t_pc' = "done"

\* the same, where a call that has started runs on: weak fairness of
\* FlightStep and of FlightReturn
SpecTrajectoryLive ==
    /\ InitTrajectory
    /\ [][TrajectoryNext]_vars
    /\ WF_time(LoopAdvances)
    /\ WF_t_pc(LoopExits)


\* a LaunchVectorCalculator without calibrator, under any calls (the tracker,
\* the detector and the simulator beside it stay as constructed)
InitLaunch == KalmanInit /\ HybridNew(FALSE) /\ TrajectoryNew /\ LaunchNew /\ TablesNew /\ OverlapNew /\ ServerNew(<<>>)
SpecLaunch == InitLaunch /\ [][LaunchNext]_vars

\* the confidence score of a LaunchVectorCalculator, computed for any point
\* window, speed result and angle result
\* generate_all_lookup_tables()
InitTables == KalmanInit /\ HybridNew(FALSE) /\ TrajectoryNew /\ LaunchNew /\ TablesNew /\ OverlapNew /\ ServerNew(<<>>)
SpecTables == InitTables /\ [][TablesNext]_vars

\* generate_all_lookup_tables() with simulate_flight run beside it
InitTablesFlight == KalmanInit /\ HybridNew(FALSE) /\ TrajectoryNew /\ LaunchNew /\ TablesNew /\ OverlapNew /\ ServerNew(<<>>)
SpecTablesFlight == InitTablesFlight /\ [][TablesFlightNext]_vars

\* one TrajectorySimulator, two simulate_flight calls at the same time
InitOverlap ==
    KalmanInit /\ HybridNew(FALSE) /\ TrajectoryNew /\ LaunchNew /\ TablesNew /\ OverlapNew /\ ServerNew(<<>>)
SpecOverlap == InitOverlap /\ [][OverlapNext]_vars

\* api_server with its detector and its tracker
InitServer ==
    /\ KalmanNew(ServerProcessNoise, ServerMeasurementNoise, ServerDt)
    /\ HybridInit /\ TrajectoryNew /\ LaunchNew /\ TablesNew /\ OverlapNew
    /\ \E rounds \in ServerRuns : ServerNew(rounds)
SpecServer == InitServer /\ [][ServerNext]_vars


=============================================================================
